---------------------------- MODULE Spec2Model ----------------------------
(***************************************************************************)
(* A model of the scraper-superbid repository:                             *)
(*                                                                         *)
(*   scrapers/superbid/scraper.py   SuperbidScraper.scrape,                *)
(*                                  _scrape_section, _parse_offer, main    *)
(*   scrapers/supabase_client.py    SupabaseSuperbid.upsert, _prepare_item,*)
(*                                  the heartbeat methods                  *)
(*   scrapers/normalizer.py         UniversalNormalizer.normalize and the  *)
(*                                  title extractors, normalize_items      *)
(*                                                                         *)
(* Python values are tagged records [t, v]; a Python str is a sequence of  *)
(* one-character strings, so that slicing, searching and case mapping are  *)
(* computed and not assumed.  A dict is a TLA+ record; a key the dict does *)
(* not hold is a field the record does not have.                           *)
(*                                                                         *)
(* Seven specifications share the variables:                              *)
(*   Spec        main(): scrape every section, dump, upload                *)
(*   FairSpec    the same program against a feed that may never run dry,   *)
(*               with weak fairness of the (single-threaded) program       *)
(*   SpecUpsert  SupabaseSuperbid.upsert called with any list of items     *)
(*   SpecPrepare SupabaseSuperbid.upsert called with one item of any shape *)
(*   SpecNorm    normalize_items called with any list of raw listings      *)
(*   SpecItem    normalize called with one listing                         *)
(*   SpecOffer   _parse_offer called with one offer of any shape           *)
(***************************************************************************)
EXTENDS Integers, Sequences, FiniteSets, TLC

VARIABLES
    pc,                  \* main(): the statement the program is at
    sec,                 \* scrape(): index of the section being scraped
    page_num,            \* _scrape_section: page_num
    consecutive_errors,  \* _scrape_section: consecutive_errors
    remaining,           \* _scrape_section: offers of the current page not yet parsed
    items,               \* _scrape_section: items
    all_items,           \* scrape(): all_items
    global_ids,          \* scrape(): global_ids
    stats,               \* SuperbidScraper.stats
    skipped,             \* history: parsed offers skipped as already collected
    feedLeft,            \* the feed: non-empty pages it still serves
    last_fetch,          \* outcome of the latest page request
    dump,                \* main(): the content of the JSON file
    events,              \* main(): the stages the run went through, in order
    up_pc,               \* upsert(): the statement the call is at
    up_input,            \* upsert(): the items argument (runs of equal items)
    up_prepared,         \* upsert(): prepared (runs of equal records)
    up_errors,           \* upsert(): errors counted while preparing
    up_stats,            \* upsert(): stats
    up_i,                \* upsert(): i, start of the next batch
    up_result,           \* upsert(): the returned dict
    up_raised,           \* whether an exception escaped a client method
    posted,              \* the sink: every POST received, [size, status]
    heartbeat_metrics,   \* SupabaseSuperbid.heartbeat_metrics
    heartbeat_enabled,   \* SupabaseSuperbid.heartbeat_enabled
    hb_sent,             \* the status reporter: heartbeat POSTs attempted
    n_pc,                \* normalize_items: before or after the call
    n_items,             \* normalize_items: the items argument
    n_result,            \* normalize_items: the returned list, or the raise
    po_offer,            \* _parse_offer: the offers it was called with, outside a page
    po_item              \* _parse_offer: what those calls returned

vars == << pc, sec, page_num, consecutive_errors, remaining, items, all_items,
           global_ids, stats, feedLeft, last_fetch, dump,
           events, up_pc, up_input, up_prepared, up_errors, up_stats, up_i,
           up_result, up_raised, posted, heartbeat_metrics, heartbeat_enabled,
           hb_sent, n_pc, n_items, n_result, skipped, po_offer, po_item >>

scrapeVars == << sec, page_num, consecutive_errors, remaining, items, all_items,
                 global_ids, stats, skipped, feedLeft, last_fetch >>

mainVars == << pc, dump, events >>

upsertCallVars == << up_pc, up_input, up_prepared, up_errors, up_stats, up_i,
                     up_result, posted >>

upsertVars == << upsertCallVars, up_raised >>

heartbeatVars == << heartbeat_metrics, heartbeat_enabled, hb_sent >>

normVars == << n_pc, n_items, n_result >>

parseVars == << po_offer, po_item >>

-----------------------------------------------------------------------------
(* Bounds of the model *)

\* sections scraped (the program lists 53)
NumSections == 2
\* offer ids the feed draws from are 1..MaxId
MaxId == 2
\* offers on one page (the program asks for pages of 100)
MaxOffers == 2
\* non-empty pages a finite feed serves during one run
MaxPages == 2
\* runs of equal items in the list handed to upsert
MaxRuns == 2
\* heartbeat calls made around one upsert
MaxHeartbeats == 2
\* raw listings in the list handed to normalize_items
MaxItems == 2

-----------------------------------------------------------------------------
(* Python values *)

None == [t |-> "none", v |-> 0]
PyBool(b) == [t |-> "bool", v |-> b]
PyInt(n) == [t |-> "int", v |-> n]
\* a float, held as a whole number of hundredths
PyFloat(c) == [t |-> "float", v |-> c]
PyStr(s) == [t |-> "str", v |-> s]
PyList(l) == [t |-> "list", v |-> l]
PyDict(d) == [t |-> "dict", v |-> d]

\* "x = e" followed by F(x): e is computed once, as an assignment does
Bind(e, F(_)) == CHOOSE y \in { F(x) : x \in { e } } : TRUE

\* {}: the dict without keys
EmptyDict == PyDict(<<>>)

IsNone(x) == x.t = "none"
IsStr(x) == x.t = "str"

\* dict.get(key): None for a key the dict does not hold
Get(d, key) == IF key \in DOMAIN d THEN d[key] ELSE None

\* dict.get(key, default)
GetOr(d, key, default) == IF key \in DOMAIN d THEN d[key] ELSE default

\* bool(x): the truth value of a Python value
Truthy(x) ==
    CASE x.t = "none" -> FALSE
      [] x.t = "bool" -> x.v
      [] x.t = "int"  -> x.v # 0
      [] x.t = "float" -> x.v # 0
      [] x.t = "str"  -> x.v # <<>>
      [] x.t = "list" -> x.v # <<>>
      [] x.t = "dict" -> DOMAIN x.v # {}
      [] OTHER        -> TRUE

-----------------------------------------------------------------------------
(* Python str, as a sequence of characters *)

LowerLetters == << "a", "b", "c", "d", "e", "f", "g", "h", "i", "j", "k", "l", "m",
                   "n", "o", "p", "q", "r", "s", "t", "u", "v", "w", "x", "y", "z",
                   "ç", "í", "à" >>

UpperLetters == << "A", "B", "C", "D", "E", "F", "G", "H", "I", "J", "K", "L", "M",
                   "N", "O", "P", "Q", "R", "S", "T", "U", "V", "W", "X", "Y", "Z",
                   "Ç", "Í", "À" >>

Digits == { "0", "1", "2", "3", "4", "5", "6", "7", "8", "9" }

\* what \s matches and str.strip() strips
Spaces == { " ", "\n", "\t" }

Range(f) == { f[i] : i \in DOMAIN f }

IndexIn(seq, c) == CHOOSE i \in DOMAIN seq : seq[i] = c

IsLowerChar(c) == c \in Range(LowerLetters)
IsUpperChar(c) == c \in Range(UpperLetters)
IsDigit(c) == c \in Digits
IsSpace(c) == c \in Spaces

\* what \w matches: letters (the ordinal indicators are letters), digits, underscore
IsWordChar(c) == IsLowerChar(c) \/ IsUpperChar(c) \/ IsDigit(c) \/ c \in { "_", "ª", "º" }

LowerChar(c) == IF IsUpperChar(c) THEN LowerLetters[IndexIn(UpperLetters, c)] ELSE c
UpperChar(c) == IF IsLowerChar(c) THEN UpperLetters[IndexIn(LowerLetters, c)] ELSE c

\* str.lower(), str.upper()
Lower(s) == [i \in DOMAIN s |-> LowerChar(s[i])]
Upper(s) == [i \in DOMAIN s |-> UpperChar(s[i])]

\* s[a:b] with 0-based Python bounds 0 <= a
Slice(s, a, b) == SubSeq(s, a + 1, IF b < Len(s) THEN b ELSE Len(s))

\* str.startswith(p)
StartsWith(s, p) == Len(p) <= Len(s) /\ SubSeq(s, 1, Len(p)) = p

\* p in s
Contains(s, p) == \E i \in 0..(Len(s) - Len(p)) : SubSeq(s, i + 1, i + Len(p)) = p

RECURSIVE LStrip(_)
LStrip(s) == IF s # <<>> /\ IsSpace(Head(s)) THEN LStrip(Tail(s)) ELSE s

RECURSIVE RStrip(_)
RStrip(s) == IF s # <<>> /\ IsSpace(s[Len(s)]) THEN RStrip(SubSeq(s, 1, Len(s) - 1)) ELSE s

\* str.strip()
Strip(s) == RStrip(LStrip(s))

\* str.capitalize(): first character upper-cased, the rest lower-cased
Capitalize(s) == [i \in DOMAIN s |-> IF i = 1 THEN UpperChar(s[i]) ELSE LowerChar(s[i])]

\* str.isupper(): some cased character, and no lower-case one
IsUpper(s) == /\ \E i \in DOMAIN s : IsUpperChar(s[i])
              /\ \A i \in DOMAIN s : ~IsLowerChar(s[i])

\* str.isdigit()
IsDigitStr(s) == s # <<>> /\ \A i \in DOMAIN s : IsDigit(s[i])

\* the pieces of a sequence of strings lo..hi, one after the other
RECURSIVE ConcatRange(_, _, _)
ConcatRange(pieces, lo, hi) ==
    IF lo > hi THEN <<>>
    ELSE IF lo = hi THEN pieces[lo]
    ELSE ConcatRange(pieces, lo, (lo + hi) \div 2)
         \o ConcatRange(pieces, ((lo + hi) \div 2) + 1, hi)

Concat(pieces) == ConcatRange(pieces, 1, Len(pieces))

\* str.split(): the maximal runs of non-space characters, in order
Split(s) ==
    LET starts == { i \in DOMAIN s : ~IsSpace(s[i]) /\ (i = 1 \/ IsSpace(s[i - 1])) }
        Start(k) == CHOOSE i \in starts : Cardinality({ j \in starts : j < i }) = k - 1
        End(i) == CHOOSE j \in i..Len(s) :
                      /\ j = Len(s) \/ IsSpace(s[j + 1])
                      /\ \A k \in i..j : ~IsSpace(s[k])
    IN  [ k \in 1..Cardinality(starts) |-> SubSeq(s, Start(k), End(Start(k))) ]

\* ' '.join(words)
Join(words) ==
    Concat([ k \in 1..(2 * Len(words) - 1) |->
                IF k % 2 = 1 THEN words[(k + 1) \div 2] ELSE << " " >> ])

\* str.replace(c, r) for a one-character c
ReplaceChar(s, c, r) ==
    Concat([ i \in DOMAIN s |-> IF s[i] = c THEN r ELSE << s[i] >> ])


DigitChars == << "0", "1", "2", "3", "4", "5", "6", "7", "8", "9" >>

\* str(n) for an int n >= 0
RECURSIVE IntToStr(_)
IntToStr(n) ==
    IF n < 10 THEN << DigitChars[n + 1] >>
    ELSE IntToStr(n \div 10) \o << DigitChars[(n % 10) + 1] >>

-----------------------------------------------------------------------------
(* scraper.py: SuperbidScraper._parse_offer *)

S_superbid_ == << "s", "u", "p", "e", "r", "b", "i", "d", "_" >>
S_demo == << "d", "e", "m", "o" >>
S_test == << "t", "e", "s", "t" >>
S_Sem_titulo == << "S", "e", "m", " ", "t", "í", "t", "u", "l", "o" >>
S_True == << "T", "r", "u", "e" >>
S_False == << "F", "a", "l", "s", "e" >>
S_None == << "N", "o", "n", "e" >>

S_oferta ==
    << "h", "t", "t", "p", "s", ":", "/", "/", "e", "x", "c", "h", "a", "n", "g", "e", ".", "s", "u", "p", "e", "r", "b", "i", "d", ".", "n", "e", "t", "/", "o", "f", "e", "r", "t", "a", "/" >>

\* str(x) of a str, an int >= 0, a bool or None
PyToStr(x) ==
    CASE x.t = "str"  -> x.v
      [] x.t = "int"  -> IntToStr(x.v)
      [] x.t = "bool" -> IF x.v THEN S_True ELSE S_False
      [] x.t = "none" -> S_None

\* x < 1 for a number x (a bool compares as 0 or 1)
LessThanOne(x) ==
    CASE x.t = "int"   -> x.v < 1
      [] x.t = "float" -> x.v < 100
      [] x.t = "bool"  -> ~x.v
      [] x.t = "nan"   -> FALSE

IsNumber(x) == x.t \in { "int", "float", "bool" }

\* the filter on the store name (a store name that is no str makes .lower() raise)
StoreIsDemo(store_name) ==
    \/ Contains(Lower(store_name.v), S_demo)
    \/ Contains(Lower(store_name.v), S_test)

\* the filter on the price: "price and price < 1"
PriceIsLow(price) == Truthy(price) /\ LessThanOne(price)

\* the separator of a city and its state
S_dash == << " ", "-", " " >>

\* str.split(sep): the pieces between the occurrences of sep, found left to right
RECURSIVE SplitOn(_, _)
SplitOn(s, sep) ==
    IF ~Contains(s, sep) THEN << s >>
    ELSE LET i == CHOOSE k \in 1..(Len(s) - Len(sep) + 1) :
                      /\ SubSeq(s, k, k + Len(sep) - 1) = sep
                      /\ \A j \in 1..(k - 1) : SubSeq(s, j, j + Len(sep) - 1) # sep
         IN  << SubSeq(s, 1, i - 1) >> \o SplitOn(SubSeq(s, i + Len(sep), Len(s)), sep)

\* "if len(state_raw) == 2: state = state_raw.upper()"
TwoLetters(state_raw) ==
    IF Len(state_raw) = 2 THEN PyStr(Upper(state_raw)) ELSE None

\* city and state out of location.get('city'); a value that is there and is no
\* str makes "' - ' in location_full" or .strip() raise
LocationParts(location_full) ==
    IF ~Truthy(location_full) THEN [raises |-> FALSE, city |-> None, state |-> None]
    ELSE IF ~IsStr(location_full) THEN [raises |-> TRUE, city |-> None, state |-> None]
    ELSE IF Contains(location_full.v, S_dash)
    THEN LET parts == SplitOn(location_full.v, S_dash)
         IN  [raises |-> FALSE, city |-> PyStr(Strip(parts[1])),
              state |-> TwoLetters(Strip(parts[2]))]
    ELSE [raises |-> FALSE, city |-> PyStr(Strip(location_full.v)), state |-> None]

\* the state out of seller.get('city'), tried when the location gave none
SellerState(seller_city) ==
    IF ~Truthy(seller_city) THEN [raises |-> FALSE, state |-> None]
    ELSE CASE seller_city.t = "str" ->
                IF Contains(seller_city.v, S_dash)
                THEN LET parts == SplitOn(seller_city.v, S_dash)
                     IN  [raises |-> FALSE, state |-> TwoLetters(Strip(parts[Len(parts)]))]
                ELSE [raises |-> FALSE, state |-> None]
           \* "' - ' in" a list that holds it is true, and list.split is missing
           [] seller_city.t = "list" ->
                [raises |-> \E i \in DOMAIN seller_city.v : seller_city.v[i] = PyStr(S_dash),
                 state |-> None]
           [] seller_city.t = "dict" ->
                [raises |-> " - " \in DOMAIN seller_city.v, state |-> None]
           \* "' - ' in" a number is a TypeError
           [] OTHER -> [raises |-> TRUE, state |-> None]

\* state_map: the full names of the 27 states and their codes
state_map ==
    {
       << << "A", "c", "r", "e" >>, << "A", "C" >> >>,
       << << "A", "l", "a", "g", "o", "a", "s" >>, << "A", "L" >> >>,
       << << "A", "m", "a", "p", "á" >>, << "A", "P" >> >>,
       << << "A", "m", "a", "z", "o", "n", "a", "s" >>, << "A", "M" >> >>,
       << << "B", "a", "h", "i", "a" >>, << "B", "A" >> >>,
       << << "C", "e", "a", "r", "á" >>, << "C", "E" >> >>,
       << << "D", "i", "s", "t", "r", "i", "t", "o", " ", "F", "e", "d", "e", "r", "a", "l" >>, << "D", "F" >> >>,
       << << "E", "s", "p", "í", "r", "i", "t", "o", " ", "S", "a", "n", "t", "o" >>, << "E", "S" >> >>,
       << << "G", "o", "i", "á", "s" >>, << "G", "O" >> >>,
       << << "M", "a", "r", "a", "n", "h", "ã", "o" >>, << "M", "A" >> >>,
       << << "M", "a", "t", "o", " ", "G", "r", "o", "s", "s", "o" >>, << "M", "T" >> >>,
       << << "M", "a", "t", "o", " ", "G", "r", "o", "s", "s", "o", " ", "d", "o", " ", "S", "u", "l" >>, << "M", "S" >> >>,
       << << "M", "i", "n", "a", "s", " ", "G", "e", "r", "a", "i", "s" >>, << "M", "G" >> >>,
       << << "P", "a", "r", "á" >>, << "P", "A" >> >>,
       << << "P", "a", "r", "a", "í", "b", "a" >>, << "P", "B" >> >>,
       << << "P", "a", "r", "a", "n", "á" >>, << "P", "R" >> >>,
       << << "P", "e", "r", "n", "a", "m", "b", "u", "c", "o" >>, << "P", "E" >> >>,
       << << "P", "i", "a", "u", "í" >>, << "P", "I" >> >>,
       << << "R", "i", "o", " ", "d", "e", " ", "J", "a", "n", "e", "i", "r", "o" >>, << "R", "J" >> >>,
       << << "R", "i", "o", " ", "G", "r", "a", "n", "d", "e", " ", "d", "o", " ", "N", "o", "r", "t", "e" >>, << "R", "N" >> >>,
       << << "R", "i", "o", " ", "G", "r", "a", "n", "d", "e", " ", "d", "o", " ", "S", "u", "l" >>, << "R", "S" >> >>,
       << << "R", "o", "n", "d", "ô", "n", "i", "a" >>, << "R", "O" >> >>,
       << << "R", "o", "r", "a", "i", "m", "a" >>, << "R", "R" >> >>,
       << << "S", "a", "n", "t", "a", " ", "C", "a", "t", "a", "r", "i", "n", "a" >>, << "S", "C" >> >>,
       << << "S", "ã", "o", " ", "P", "a", "u", "l", "o" >>, << "S", "P" >> >>,
       << << "S", "e", "r", "g", "i", "p", "e" >>, << "S", "E" >> >>,
       << << "T", "o", "c", "a", "n", "t", "i", "n", "s" >>, << "T", "O" >> >>
    }

\* state_map.get(state_full, state_full); a list or a dict is unhashable
FullState(state_full) ==
    IF state_full.t \in { "list", "dict" } THEN [raises |-> TRUE, state |-> None]
    ELSE IF IsStr(state_full) /\ \E e \in state_map : e[1] = state_full.v
    THEN [raises |-> FALSE,
          state |-> PyStr((CHOOSE e \in state_map : e[1] = state_full.v)[2])]
    ELSE [raises |-> FALSE, state |-> state_full]

\* the state of the item: of the location string, else of the seller's city, else
\* of the state name of the location
OfferState(location, seller) ==
    LET loc == LocationParts(Get(location, "city"))
    IN  IF loc.raises THEN loc
        ELSE IF Truthy(loc.state) THEN loc
        ELSE LET sel == SellerState(Get(seller, "city"))
             IN  IF sel.raises THEN [loc EXCEPT !.raises = TRUE]
                 ELSE IF Truthy(sel.state) THEN [loc EXCEPT !.state = sel.state]
                 ELSE IF ~Truthy(Get(location, "state")) THEN loc
                 ELSE LET full == FullState(GetOr(location, "state", PyStr(<<>>)))
                      IN  [loc EXCEPT !.raises = full.raises, !.state = full.state]

\* d.get(key, {}) whose result is asked with .get: that raises unless it is a dict
NotDict(d, key) == key \in DOMAIN d /\ d[key].t # "dict"

\* d.get(key, {}) as a dict
DictAt(d, key) == IF key \in DOMAIN d /\ d[key].t = "dict" THEN d[key].v ELSE <<>>

\* the parts of an offer that _parse_offer reads with .get
OfferDicts ==
    { "product", "auction", "store", "manager", "offerDetail", "currentBidIncrement",
      "winnerBid", "offerStatus", "groupOffer", "seller", "commercialCondition" }

\* the parts of the product that it reads with .get
ProductDicts == { "subCategory", "productType", "location", "template" }

\* "for prop in properties: prop.get('id', '').lower()"
OfferPropertiesRaise(properties) ==
    CASE properties.t = "list" ->
            \E i \in DOMAIN properties.v :
                \/ properties.v[i].t # "dict"
                \/ ~IsStr(GetOr(properties.v[i].v, "id", PyStr(<<>>)))
      [] properties.t = "str"  -> properties.v # <<>>
      [] properties.t = "dict" -> DOMAIN properties.v # {}
      [] OTHER                 -> TRUE

\* "for group in groups: properties = group.get('properties', [])"
OfferGroupsRaise(groups) ==
    CASE groups.t = "list" ->
            \E i \in DOMAIN groups.v :
                \/ groups.v[i].t # "dict"
                \/ OfferPropertiesRaise(GetOr(groups.v[i].v, "properties", PyList(<<>>)))
      [] groups.t = "str"  -> groups.v # <<>>
      [] groups.t = "dict" -> DOMAIN groups.v # {}
      [] OTHER             -> TRUE

\* "if gallery_json and len(gallery_json) > 0: image_url = gallery_json[0].get('link')"
ImageUrl(gallery_json) ==
    IF ~Truthy(gallery_json) THEN [raises |-> FALSE, url |-> None]
    ELSE IF gallery_json.t = "list" /\ gallery_json.v[1].t = "dict"
    THEN [raises |-> FALSE, url |-> Get(gallery_json.v[1].v, "link")]
    ELSE [raises |-> TRUE, url |-> None]

\* the title: the short description, or the description of the offer
OfferTitle(offer, product) ==
    IF Truthy(Get(product, "shortDesc"))
    THEN [raises |-> FALSE, title |-> Get(product, "shortDesc")]
    ELSE [raises |-> NotDict(offer, "offerDescription"),
          title  |-> GetOr(DictAt(offer, "offerDescription"), "offerDescription",
                           PyStr(S_Sem_titulo))]

\* "price and price < 1" is a TypeError for a price that is no number
PriceRaises(price) == Truthy(price) /\ ~IsNumber(price) /\ price.t # "nan"

\* the dict _parse_offer returns, for the keys external_id, offer_id, category,
\* title, description, city, state, location_full, store_name, price, has_bids,
\* total_bids, image_url, seller_city, link, source, is_active and has_bid; every
\* other key of the literal is one more entry written the same way
OfferItem(offer, category, title, where, image_url) ==
    [ external_id   |-> PyStr(S_superbid_ \o PyToStr(offer.id)),
      offer_id      |-> offer.id,
      category      |-> category,
      title         |-> title,
      description   |-> Get(DictAt(offer, "product"), "detailedDescription"),
      city          |-> where.city,
      state         |-> where.state,
      location_full |-> Get(DictAt(DictAt(offer, "product"), "location"), "city"),
      store_name    |-> Get(DictAt(offer, "store"), "name"),
      price         |-> Get(offer, "price"),
      has_bids      |-> GetOr(offer, "hasBids", PyBool(FALSE)),
      total_bids    |-> GetOr(offer, "totalBids", PyInt(0)),
      image_url     |-> image_url,
      seller_city   |-> Get(DictAt(offer, "seller"), "city"),
      link          |-> PyStr(S_oferta \o PyToStr(offer.id)),
      source        |-> PyStr(<< "s", "u", "p", "e", "r", "b", "i", "d" >>),
      is_active     |-> PyBool(TRUE),
      has_bid       |-> GetOr(offer, "hasBids", PyBool(FALSE)) ]

\* the body of _parse_offer, inside its try: [kind |-> "none"] for a "return
\* None", [kind |-> "raise"] for an exception, [kind |-> "item", item |-> the dict]
ParseOfferBody(offer_data, category) ==
    IF offer_data.t # "dict" THEN [kind |-> "raise"]
    ELSE
    LET offer    == offer_data.v
        product  == DictAt(offer, "product")
        location == DictAt(product, "location")
        title    == OfferTitle(offer, product)
        where    == OfferState(location, DictAt(offer, "seller"))
        template == DictAt(product, "template")
        image    == ImageUrl(GetOr(product, "galleryJson", PyList(<<>>)))
        store_name == Get(DictAt(offer, "store"), "name")
        price    == Get(offer, "price")
    IN  IF ~Truthy(Get(offer, "id")) THEN [kind |-> "none"]
        ELSE IF \E k \in OfferDicts : NotDict(offer, k) THEN [kind |-> "raise"]
        ELSE IF \E k \in ProductDicts : NotDict(product, k) THEN [kind |-> "raise"]
        ELSE IF NotDict(location, "locationGeo") THEN [kind |-> "raise"]
        ELSE IF title.raises \/ where.raises THEN [kind |-> "raise"]
        ELSE IF OfferGroupsRaise(GetOr(template, "groups", PyList(<<>>)))
             THEN [kind |-> "raise"]
        ELSE IF image.raises THEN [kind |-> "raise"]
        ELSE IF ~IsStr(store_name) THEN [kind |-> "raise"]
        ELSE IF StoreIsDemo(store_name) THEN [kind |-> "none"]
        ELSE IF PriceRaises(price) THEN [kind |-> "raise"]
        ELSE IF PriceIsLow(price) THEN [kind |-> "none"]
        ELSE [kind |-> "item",
              item |-> PyDict(OfferItem(offer, category, title.title, where, image.url))]

\* the try/except around the body: the item, or None when the offer has no id, is
\* filtered, or makes the body raise (the except clause returns None)
OfferReturn(r) == IF r.kind = "item" THEN r.item ELSE None

\* _parse_offer(offer, category, display_name) of an offer that is a dict
ParseOffer(offer, category) == OfferReturn(ParseOfferBody(PyDict(offer), category))

-----------------------------------------------------------------------------
(* supabase_client.py: SupabaseSuperbid._prepare_item *)

S_SemTitulo == << "S", "e", "m", " ", "T", "í", "t", "u", "l", "o" >>

\* get(path, default) of _prepare_item: walk the dicts along the keys
RECURSIVE RawGet(_, _, _)
RawGet(value, keys, default) ==
    IF keys = <<>> THEN value
    ELSE IF value.t # "dict" THEN default
    ELSE LET next == Get(value.v, Head(keys))
         IN  IF IsNone(next) THEN default ELSE RawGet(next, Tail(keys), default)

\* int(s) for a str of decimal digits
RECURSIVE DigitsToInt(_, _)
DigitsToInt(s, acc) ==
    IF s = <<>> THEN acc
    ELSE DigitsToInt(Tail(s), 10 * acc + (IndexIn(DigitChars, Head(s)) - 1))

\* safe_int(val): None for None, '' and whatever int() refuses
safe_int(val) ==
    CASE val.t = "none"  -> None
      [] val.t = "int"   -> val
      [] val.t = "bool"  -> PyInt(IF val.v THEN 1 ELSE 0)
      [] val.t = "float" -> PyInt(val.v \div 100)
      [] val.t = "str"   -> IF IsDigitStr(Strip(val.v))
                            THEN PyInt(DigitsToInt(Strip(val.v), 0))
                            ELSE None
      [] OTHER           -> None

\* repr(x) of a str without quotes in it, and of an int >= 0
Repr(x) ==
    CASE x.t = "str" -> << "'" >> \o x.v \o << "'" >>
      [] x.t = "int" -> IntToStr(x.v)

\* str(list) of a list of such values
RECURSIVE ListItems(_)
ListItems(l) ==
    IF l = <<>> THEN <<>>
    ELSE IF Len(l) = 1 THEN Repr(l[1])
    ELSE Repr(l[1]) \o << ",", " " >> \o ListItems(Tail(l))

\* safe_str(val): None for None and '', str(val) otherwise
safe_str(val) ==
    CASE val.t = "none" -> None
      [] val.t = "str"  -> IF val.v = <<>> THEN None ELSE val
      [] val.t = "int"  -> IF val.v >= 0 THEN PyStr(IntToStr(val.v))
                           ELSE PyStr(<< "-" >> \o IntToStr(0 - val.v))
      [] val.t = "list" -> PyStr(<< "[" >> \o ListItems(val.v) \o << "]" >>)
      [] OTHER          -> PyStr(<< "<", val.t, ">" >>)

\* safe_bool(val)
safe_bool(val) ==
    CASE val.t = "none" -> FALSE
      [] val.t = "bool" -> val.v
      [] val.t = "str"  -> Lower(val.v) \in { << "t", "r", "u", "e" >>, << "1" >>,
                                              << "y", "e", "s" >>, << "s", "i", "m" >> }
      [] val.t = "int"  -> val.v = 1
      [] OTHER          -> FALSE

\* "for prop in properties: prop.get(...)": raises unless properties is a list (or
\* another iterable) of dicts
PropertiesRaise(properties) ==
    CASE properties.t = "list" -> \E i \in DOMAIN properties.v : properties.v[i].t # "dict"
      [] properties.t = "str"  -> properties.v # <<>>
      [] properties.t = "dict" -> DOMAIN properties.v # {}
      [] OTHER                 -> TRUE

GroupRaises(group) ==
    \/ group.t # "dict"
    \/ PropertiesRaise(GetOr(group.v, "properties", PyList(<<>>)))

\* "for group in template.get('groups', [])"
GroupsRaise(groups) ==
    CASE groups.t = "list" -> \E i \in DOMAIN groups.v : GroupRaises(groups.v[i])
      [] groups.t = "str"  -> groups.v # <<>>
      [] groups.t = "dict" -> DOMAIN groups.v # {}
      [] OTHER             -> TRUE

\* the template walk of _prepare_item, the one place of it that is not guarded
TemplateRaises(template) ==
    /\ template.t = "dict"
    /\ GroupsRaise(GetOr(template.v, "groups", PyList(<<>>)))

\* the state column: the location state, stripped and upper-cased, when 2 long
PreparedState(location_state) ==
    IF ~Truthy(location_state) THEN None
    ELSE LET state_str == Upper(Strip(location_state.v))
         IN  IF Len(state_str) = 2 THEN PyStr(state_str) ELSE None

\* location_full: the city, followed by " - " and the state when both are there
LocationFull(location_city, location_state) ==
    IF Truthy(location_city) /\ Truthy(location_state)
    THEN PyStr(location_city.v \o << " ", "-", " " >> \o location_state.v)
    ELSE location_city

\* "safe_int(...) or 0"
OrZero(n) == IF Truthy(n) THEN n ELSE PyInt(0)

\* the metadata dict: two keys always, a further key for each part that is there
Metadata(item, raw, template) ==
    LET base == [ category_display |-> Get(item, "category_display"),
                  scraped_at       |-> Get(item, "scraped_at") ]
        Part(key, path) == IF Truthy(RawGet(raw, path, None))
                           THEN (key :> RawGet(raw, path, None))
                           ELSE <<>>
        t    == IF Truthy(template) THEN [ template |-> template ] ELSE <<>>
    IN  PyDict(base @@ Part("gallery", << "product", "galleryJson" >>)
                    @@ t
                    @@ Part("product_custom", << "product", "productCustomJson" >>)
                    @@ Part("sub_marketplaces", << "auction", "subMarketplaces" >>)
                    @@ Part("event_pipeline", << "auction", "eventPipeline" >>)
                    @@ Part("stores", << "stores" >>)
                    @@ Part("winner_bid", << "winnerBid" >>))

\* a faulty return dict: the columns without a value are left out
db_item_sparse(external_id, offer_id, title, description, location_city, state, location_full, has_bids, total_bids, link, metadata) ==
    LET full == [ external_id   |-> external_id,
                  offer_id      |-> offer_id,
                  title         |-> title,
                  description   |-> description,
                  city          |-> location_city,
                  state         |-> state,
                  location_full |-> location_full,
                  has_bids      |-> PyBool(has_bids),
                  total_bids    |-> total_bids,
                  link          |-> link,
                  source        |-> PyStr(<< "s", "u", "p", "e", "r", "b", "i", "d" >>),
                  metadata      |-> metadata,
                  is_active     |-> PyBool(TRUE),
                  has_bid       |-> PyBool(has_bids) ]
    IN  [ k \in { c \in DOMAIN full : full[c].t # "none" } |-> full[k] ]

\* the dict _prepare_item returns ("todos os campos do schema"), for the columns
\* external_id, offer_id, title, description, city, state, location_full,
\* has_bids, total_bids, link, source, metadata, is_active and has_bid; every
\* other column of the literal is one more entry written the same way
db_item(external_id, offer_id, title, description, location_city, state, location_full, has_bids, total_bids, link, metadata) ==
    [ external_id   |-> external_id,
      offer_id      |-> offer_id,
      title         |-> title,
      description   |-> description,
      city          |-> location_city,
      state         |-> state,
      location_full |-> location_full,
      has_bids      |-> PyBool(has_bids),
      total_bids    |-> total_bids,
      link          |-> link,
      source        |-> PyStr(<< "s", "u", "p", "e", "r", "b", "i", "d" >>),
      metadata      |-> metadata,
      is_active     |-> PyBool(TRUE),
      has_bid       |-> PyBool(has_bids) ]

\* _prepare_item(item): [kind |-> "none"] for a rejected item (return None),
\* [kind |-> "raise"] when the body raises, [kind |-> "record", rec |-> the dict]
_prepare_item(item) ==
    IF item.t # "dict" THEN [kind |-> "raise"]
    ELSE
    LET external_id == Get(item.v, "external_id")
        raw         == GetOr(item.v, "raw_data", EmptyDict)
        offer_id    == safe_int(RawGet(raw, << "id" >>, None))
        short_desc  == safe_str(RawGet(raw, << "product", "shortDesc" >>, PyStr(S_SemTitulo)))
        title       == IF Truthy(short_desc) THEN short_desc ELSE PyStr(S_SemTitulo)
        description == safe_str(RawGet(raw, << "product", "detailedDescription" >>, None))
        location_city  == safe_str(RawGet(raw, << "product", "location", "city" >>, None))
        location_state == safe_str(RawGet(raw, << "product", "location", "state" >>, None))
        has_bids    == safe_bool(RawGet(raw, << "hasBids" >>, None))
        total_bids  == OrZero(safe_int(RawGet(raw, << "totalBids" >>, None)))
        template    == RawGet(raw, << "product", "template" >>, EmptyDict)
        item_link   == Get(item.v, "link")
        link        == IF Truthy(item_link) THEN item_link
                       ELSE PyStr(S_oferta \o IntToStr(offer_id.v))
    IN  IF ~Truthy(external_id) THEN [kind |-> "none"]
        ELSE IF ~Truthy(offer_id) THEN [kind |-> "none"]
        ELSE IF TemplateRaises(template) THEN [kind |-> "raise"]
        ELSE [ kind |-> "record",
               rec  |-> db_item(external_id, offer_id, title, description,
                                location_city, PreparedState(location_state),
                                LocationFull(location_city, location_state),
                                has_bids, total_bids, link,
                                Metadata(item.v, raw, template)) ]

-----------------------------------------------------------------------------
(* supabase_client.py: the heartbeat methods *)

\* what the status reporter does with one POST: answers 200 or 201, answers another
\* status, or the request raises (connection error, timeout)
HeartbeatEnv == { "ok", "bad_status", "exception" }

\* a faulty _send_heartbeat without its try/except: the exception of the POST
\* leaves the method
_send_heartbeat_uncaught(enabled, env) ==
    IF ~enabled THEN [ret |-> FALSE, raised |-> FALSE, sent |-> FALSE]
    ELSE IF env = "exception" THEN [ret |-> FALSE, raised |-> TRUE, sent |-> TRUE]
    ELSE [ret |-> (env = "ok"), raised |-> FALSE, sent |-> TRUE]

\* _send_heartbeat(...): ret is the returned bool, raised whether an exception
\* leaves the method, sent whether the POST was attempted
_send_heartbeat(enabled, env) ==
    IF ~enabled THEN [ret |-> FALSE, raised |-> FALSE, sent |-> FALSE]
    ELSE IF env = "exception" THEN [ret |-> FALSE, raised |-> FALSE, sent |-> TRUE]
    ELSE [ret |-> (env = "ok"), raised |-> FALSE, sent |-> TRUE]

\* the status reporter's counters after one _send_heartbeat
Reported(h) ==
    [ posts  |-> hb_sent.posts + (IF h.sent THEN 1 ELSE 0),
      failed |-> hb_sent.failed + (IF h.ret THEN 0 ELSE 1) ]

HeartbeatCalls == hb_sent.failed + hb_sent.posts

\* a caller may use the heartbeat methods before upsert is called and after it returned
HeartbeatCallable == up_pc \in { "idle", "done" } /\ HeartbeatCalls < MaxHeartbeats

\* heartbeat_start(custom_logs) and heartbeat_success(final_stats): one
\* _send_heartbeat(status='active'), the metrics untouched
heartbeat_start ==
    /\ HeartbeatCallable
    /\ \E env \in HeartbeatEnv :
         LET h == _send_heartbeat(heartbeat_enabled, env)
         IN  /\ hb_sent' = Reported(h)
             /\ up_raised' = (up_raised \/ h.raised)
    /\ UNCHANGED << heartbeat_metrics, heartbeat_enabled, upsertCallVars >>
    /\ UNCHANGED << scrapeVars, mainVars, normVars, parseVars >>

heartbeat_success ==
    /\ HeartbeatCallable
    /\ up_pc = "done"
    /\ \E env \in HeartbeatEnv :
         LET h == _send_heartbeat(heartbeat_enabled, env)
         IN  /\ hb_sent' = Reported(h)
             /\ up_raised' = (up_raised \/ h.raised)
    /\ UNCHANGED << heartbeat_metrics, heartbeat_enabled, upsertCallVars >>
    /\ UNCHANGED << scrapeVars, mainVars, normVars, parseVars >>

\* heartbeat_error(error, context): errors += 1, then _send_heartbeat(status='error')
heartbeat_error ==
    /\ HeartbeatCallable
    /\ heartbeat_metrics' = [heartbeat_metrics EXCEPT !.errors = @ + 1]
    /\ \E env \in HeartbeatEnv :
         LET h == _send_heartbeat(heartbeat_enabled, env)
         IN  /\ hb_sent' = Reported(h)
             /\ up_raised' = (up_raised \/ h.raised)
    /\ UNCHANGED << heartbeat_enabled, upsertCallVars >>
    /\ UNCHANGED << scrapeVars, mainVars, normVars, parseVars >>

\* heartbeat_warning(message, details): warnings += 1, then
\* _send_heartbeat(status='warning')
heartbeat_warning ==
    /\ HeartbeatCallable
    /\ heartbeat_metrics' = [heartbeat_metrics EXCEPT !.warnings = @ + 1]
    /\ \E env \in HeartbeatEnv :
         LET h == _send_heartbeat(heartbeat_enabled, env)
         IN  /\ hb_sent' = Reported(h)
             /\ up_raised' = (up_raised \/ h.raised)
    /\ UNCHANGED << heartbeat_enabled, upsertCallVars >>
    /\ UNCHANGED << scrapeVars, mainVars, normVars, parseVars >>

\* a faulty heartbeat_progress: one more per call, whatever the batch holds
heartbeat_progress_per_call(metrics, n) == [metrics EXCEPT !.items_processed = @ + 1]

\* heartbeat_progress(items_processed=n): the metrics grow first, then the
\* heartbeat is sent; the result is that of _send_heartbeat
heartbeat_progress(metrics, n) == [metrics EXCEPT !.items_processed = @ + n]

-----------------------------------------------------------------------------
(* supabase_client.py: SupabaseSuperbid.upsert *)

batch_size == 500

\* len() of a list held as runs [.., count]
RECURSIVE TotalCount(_)
TotalCount(runs) == IF runs = <<>> THEN 0 ELSE Head(runs).count + TotalCount(Tail(runs))

\* the preparation loop: every item through _prepare_item, a record appended to
\* prepared, a raise counted in errors, a None dropped
RECURSIVE PrepareRuns(_, _, _)
PrepareRuns(runs, prepared, errors) ==
    IF runs = <<>> THEN [prepared |-> prepared, errors |-> errors]
    ELSE LET run == Head(runs)
             r   == _prepare_item(run.item)
         IN  CASE r.kind = "record" ->
                    PrepareRuns(Tail(runs),
                                Append(prepared, [rec |-> r.rec, count |-> run.count]),
                                errors)
               [] r.kind = "raise" -> PrepareRuns(Tail(runs), prepared, errors + run.count)
               [] OTHER -> PrepareRuns(Tail(runs), prepared, errors)

ZeroStats == [inserted |-> 0, updated |-> 0, errors |-> 0]

\* upsert(items) up to its batch loop: the early returns, or the loop's start
UpsertEntry(input) ==
    IF TotalCount(input) = 0
    THEN [pc |-> "done", prepared |-> <<>>, errors |-> 0, result |-> ZeroStats]
    ELSE LET p == PrepareRuns(input, <<>>, 0)
         IN  IF p.prepared = <<>>
             THEN [pc |-> "done", prepared |-> <<>>, errors |-> p.errors,
                   result |-> [ZeroStats EXCEPT !.errors = p.errors]]
             ELSE [pc |-> "post", prepared |-> p.prepared, errors |-> p.errors,
                   result |-> ZeroStats]

\* the call of upsert(items), as an update of the call's variables
UpsertBegin(input) ==
    LET e == UpsertEntry(input)
    IN  /\ up_input' = input
        /\ up_pc' = e.pc
        /\ up_prepared' = e.prepared
        /\ up_errors' = e.errors
        /\ up_stats' = ZeroStats
        /\ up_i' = 0
        /\ up_result' = e.result

\* a faulty slice: prepared[i:], the whole rest in one POST
BatchLenRest(i, n) == n - i

\* len(prepared[i:i+batch_size])
BatchLen(i, n) == IF i + batch_size <= n THEN batch_size ELSE n - i

\* the statuses the sink answers a POST with
SinkStatuses == { 200, 201, 409, 400, 500 }

\* a faulty count: a batch answered 409 lands in updated and in errors
CountBatchTwice(st, status, len_batch) ==
    IF status \in { 200, 201 } THEN [st EXCEPT !.inserted = @ + len_batch]
    ELSE IF status = 409
         THEN [st EXCEPT !.updated = @ + len_batch, !.errors = @ + len_batch]
    ELSE [st EXCEPT !.errors = @ + len_batch]

\* the stats after the sink answered a batch of len_batch records with status
CountBatch(st, status, len_batch) ==
    IF status \in { 200, 201 } THEN [st EXCEPT !.inserted = @ + len_batch]
    ELSE IF status = 409 THEN [st EXCEPT !.updated = @ + len_batch]
    ELSE [st EXCEPT !.errors = @ + len_batch]

\* the end of one pass of the batch loop: the next batch, or "return stats"
BatchLoopStep(st) ==
    /\ up_stats' = st
    /\ up_i' = up_i + batch_size
    /\ IF up_i + batch_size < TotalCount(up_prepared)
       THEN up_pc' = "post" /\ up_result' = up_result
       ELSE up_pc' = "done" /\ up_result' = st

\* one pass of the batch loop in which the sink answers 200 or 201: the batch is
\* counted as inserted and heartbeat_progress is called inside the same try
PostBatchInserted ==
    /\ up_pc = "post"
    /\ LET len_batch == BatchLen(up_i, TotalCount(up_prepared))
       IN  \E status \in { 200, 201 }, env \in HeartbeatEnv :
             LET h == _send_heartbeat(heartbeat_enabled, env)
                 counted == CountBatch(up_stats, status, len_batch)
             IN  /\ posted' = Append(posted, [size |-> len_batch, status |-> status])
                 /\ heartbeat_metrics' = heartbeat_progress(heartbeat_metrics, len_batch)
                 /\ hb_sent' = Reported(h)
                 \* an exception leaving heartbeat_progress lands in the except
                 \* clause of the batch, which counts the batch as errors
                 /\ BatchLoopStep(IF h.raised
                                  THEN [counted EXCEPT !.errors = @ + len_batch]
                                  ELSE counted)
    /\ UNCHANGED << up_input, up_prepared, up_errors, up_raised, heartbeat_enabled >>
    /\ UNCHANGED << scrapeVars, mainVars, normVars, parseVars >>

\* one pass of the batch loop in which the sink answers another status
PostBatchRefused ==
    /\ up_pc = "post"
    /\ LET len_batch == BatchLen(up_i, TotalCount(up_prepared))
       IN  \E status \in SinkStatuses \ { 200, 201 } :
             /\ posted' = Append(posted, [size |-> len_batch, status |-> status])
             /\ BatchLoopStep(CountBatch(up_stats, status, len_batch))
    /\ UNCHANGED << up_input, up_prepared, up_errors, up_raised, heartbeatVars >>
    /\ UNCHANGED << scrapeVars, mainVars, normVars, parseVars >>

\* one pass of the batch loop in which session.post raises (no status: 0)
PostBatchRaises ==
    /\ up_pc = "post"
    /\ LET len_batch == BatchLen(up_i, TotalCount(up_prepared))
       IN  /\ posted' = Append(posted, [size |-> len_batch, status |-> 0])
           /\ BatchLoopStep([up_stats EXCEPT !.errors = @ + len_batch])
    /\ UNCHANGED << up_input, up_prepared, up_errors, up_raised, heartbeatVars >>
    /\ UNCHANGED << scrapeVars, mainVars, normVars, parseVars >>

-----------------------------------------------------------------------------
(* scraper.py: SuperbidScraper.scrape and _scrape_section *)

max_errors == 3

\* a feed that never runs out of non-empty pages
Endless == 0 - 1

FiniteFeeds == 0..MaxPages
AnyFeeds == FiniteFeeds \cup { Endless }

\* page_num and stats['duplicates'] have no limit in the program; against an endless
\* feed the model folds the values from these caps on together.  A finite feed
\* never brings a counter to its cap.
PageCap == 3 * MaxPages + 4
DuplicatesCap == MaxPages * MaxOffers + 1

\* page_num += 1
NextPage(p) == IF p < PageCap THEN p + 1 ELSE p

S_store == << "L", "e", "i", "l", "o", "e", "s", " ", "S", "A" >>
S_store_demo == << "L", "o", "j", "a", " ", "D", "E", "M", "O" >>

\* the offers the feed puts on its pages: with and without bids, of a demo store,
\* without a store, without an id
FeedOffers ==
    { [ id |-> PyInt(i), store |-> PyDict([name |-> PyStr(S_store)]),
        price |-> PyFloat(150000), hasBids |-> PyBool(b) ] :
        i \in 1..MaxId, b \in BOOLEAN }
    \cup { [ id |-> PyInt(i), store |-> PyDict([name |-> PyStr(S_store_demo)]),
             price |-> PyFloat(150000), hasBids |-> PyBool(FALSE) ] : i \in 1..MaxId }
    \cup { [ id |-> PyInt(i), price |-> PyFloat(150000) ] : i \in 1..MaxId }
    \cup { [ store |-> PyDict([name |-> PyStr(S_store)]), price |-> PyFloat(150000) ] }

\* _parse_offer of every offer of the feed, per section
Parsed == [offer \in FeedOffers, category \in 1..NumSections |-> ParseOffer(offer, category)]

\* "consecutive_errors >= max_errors"
ErrorsExhausted(n) == n >= max_errors

\* the two failure branches of the page loop: count the failure, then break at
\* max_errors consecutive failures, or move on to the next page number
FetchFailed ==
    /\ consecutive_errors' = consecutive_errors + 1
    /\ IF ErrorsExhausted(consecutive_errors + 1)
       THEN pc' = "section_end" /\ page_num' = page_num
       ELSE pc' = "fetch" /\ page_num' = NextPage(page_num)
    /\ UNCHANGED << sec, remaining, items, all_items, global_ids, stats, skipped,
                    feedLeft >>
    /\ UNCHANGED << dump, events, upsertVars, heartbeatVars, normVars, parseVars >>

\* response.status_code != 200
FetchHttpError ==
    /\ pc = "fetch"
    /\ last_fetch' = "http_error"
    /\ FetchFailed

\* session.get raises, or response.json() raises on a malformed body
FetchException ==
    /\ pc = "fetch"
    /\ last_fetch' = "exception"
    /\ FetchFailed

\* "if not offers: break"
FetchEmpty ==
    /\ pc = "fetch"
    /\ last_fetch' = "empty"
    /\ pc' = "section_end"
    /\ UNCHANGED << sec, page_num, consecutive_errors, remaining, items, all_items,
                    global_ids, stats, skipped, feedLeft >>
    /\ UNCHANGED << dump, events, upsertVars, heartbeatVars, normVars, parseVars >>

\* a page with offers: consecutive_errors = 0, then the offers one by one
FetchPage ==
    /\ pc = "fetch"
    /\ feedLeft # 0
    /\ last_fetch' = "page"
    /\ consecutive_errors' = 0
    /\ \E n \in 1..MaxOffers : remaining' = n
    /\ feedLeft' = IF feedLeft = Endless THEN Endless ELSE feedLeft - 1
    /\ pc' = "offers"
    /\ UNCHANGED << sec, page_num, items, all_items, global_ids, stats, skipped >>
    /\ UNCHANGED << dump, events, upsertVars, heartbeatVars, normVars, parseVars >>

\* a 200 response whose "offers" is a number other than 0: it passes "if not
\* offers", consecutive_errors = 0 is assigned, len(offers) raises in the print
\* below it, and the except clause counts one failure from 0
FetchUnsized ==
    /\ pc = "fetch"
    /\ feedLeft # 0
    /\ last_fetch' = "exception"
    /\ consecutive_errors' = 1
    /\ IF ErrorsExhausted(1)
       THEN pc' = "section_end" /\ page_num' = page_num
       ELSE pc' = "fetch" /\ page_num' = NextPage(page_num)
    /\ feedLeft' = IF feedLeft = Endless THEN Endless ELSE feedLeft - 1
    /\ UNCHANGED << sec, remaining, items, all_items, global_ids, stats, skipped >>
    /\ UNCHANGED << dump, events, upsertVars, heartbeatVars, normVars, parseVars >>

\* a faulty test that takes every offer for a new one
IsNewAlways(item, ids) == TRUE

\* "item['external_id'] not in global_ids"
IsNew(item, ids) == item.v.external_id \notin ids

\* one pass of "for offer_data in offers", and "page_num += 1" after the last
ParseNext ==
    /\ pc = "offers"
    /\ \E offer \in FeedOffers :
         LET item == Parsed[offer, sec]
         IN  /\ IF Truthy(item) /\ IsNew(item, global_ids)
                THEN /\ items' = Append(items, item)
                     /\ global_ids' = global_ids \cup { item.v.external_id }
                     /\ stats' = IF Truthy(Get(item.v, "has_bid"))
                                 THEN [stats EXCEPT !.with_bids = @ + 1]
                                 ELSE stats
                ELSE /\ stats' = IF Truthy(item)
                                 THEN [stats EXCEPT !.duplicates =
                                           IF @ < DuplicatesCap THEN @ + 1 ELSE @]
                                 ELSE stats
                     /\ UNCHANGED << items, global_ids >>
             \* the history of the run: one more offer that parsed to an item
             \* whose external_id was in global_ids already
             /\ skipped' = IF Truthy(item) /\ item.v.external_id \in global_ids
                           THEN (IF skipped < DuplicatesCap THEN skipped + 1 ELSE skipped)
                           ELSE skipped
    /\ remaining' = remaining - 1
    /\ IF remaining = 1
       THEN pc' = "fetch" /\ page_num' = NextPage(page_num)
       ELSE pc' = "offers" /\ page_num' = page_num
    /\ UNCHANGED << sec, consecutive_errors, all_items, feedLeft, last_fetch >>
    /\ UNCHANGED << dump, events, upsertVars, heartbeatVars, normVars, parseVars >>

\* a faulty section list in which every section carries the same category
SetCategoryShared(by_category, category, n) == [c \in { 1 } |-> n]

\* by_category[category] = n
SetCategory(by_category, category, n) ==
    [c \in DOMAIN by_category \cup { category } |->
        IF c = category THEN n ELSE by_category[c]]

\* scrape(): a section returned and another follows: extend all_items, record the
\* section's count, call _scrape_section for the next section
NextSection ==
    /\ pc = "section_end"
    /\ sec < NumSections
    /\ all_items' = all_items \o items
    /\ stats' = [stats EXCEPT !.by_category = SetCategory(@, sec, Len(items))]
    /\ sec' = sec + 1
    /\ items' = <<>>
    /\ page_num' = 1
    /\ consecutive_errors' = 0
    /\ remaining' = 0
    /\ last_fetch' = "none"
    /\ pc' = "fetch"
    /\ UNCHANGED << global_ids, skipped, feedLeft >>
    /\ UNCHANGED << dump, events, upsertVars, heartbeatVars, normVars, parseVars >>

\* scrape(): the last section returned: total_scraped, return all_items
ScrapeReturn ==
    /\ pc = "section_end"
    /\ sec = NumSections
    /\ all_items' = all_items \o items
    /\ stats' = [stats EXCEPT !.by_category = SetCategory(@, sec, Len(items)),
                              !.total_scraped = Len(all_items \o items)]
    /\ pc' = "scraped"
    \* the locals of the last _scrape_section call are gone
    /\ items' = <<>>
    /\ page_num' = 0
    /\ consecutive_errors' = 0
    /\ feedLeft' = 0
    /\ last_fetch' = "none"
    /\ UNCHANGED << sec, remaining, global_ids, skipped >>
    /\ UNCHANGED << dump, events, upsertVars, heartbeatVars, normVars, parseVars >>

ScrapeInit(feeds) ==
    /\ sec = 1
    /\ page_num = 1
    /\ consecutive_errors = 0
    /\ remaining = 0
    /\ items = <<>>
    /\ all_items = <<>>
    /\ global_ids = {}
    /\ stats = [total_scraped |-> 0, by_category |-> <<>>, duplicates |-> 0,
                with_bids |-> 0]
    /\ skipped = 0
    /\ feedLeft \in feeds
    /\ last_fetch = "none"

-----------------------------------------------------------------------------
(* scraper.py: main *)

\* a list as runs of one
RECURSIVE AsRuns(_)
AsRuns(list) ==
    IF list = <<>> THEN <<>>
    ELSE << [item |-> Head(list), count |-> 1] >> \o AsRuns(Tail(list))

\* supabase.test(): the class in supabase_client.py defines no such method; the
\* call returns True, returns False, or raises (an AttributeError included)
TestOutcomes == { "true", "false", "raise" }

\* "if not items: return": nothing is written, nothing is uploaded
MainNoItems ==
    /\ pc = "scraped"
    /\ all_items = <<>>
    /\ pc' = "done"
    /\ UNCHANGED << dump, events >>
    /\ UNCHANGED << scrapeVars, upsertVars, heartbeatVars, normVars, parseVars >>

\* a faulty main that goes on to the upload without writing the dump
MainDumpSkipped ==
    /\ pc = "scraped"
    /\ all_items # <<>>
    /\ pc' = "connect"
    /\ UNCHANGED << dump, events >>
    /\ UNCHANGED << scrapeVars, upsertVars, heartbeatVars, normVars, parseVars >>

\* the JSON dump of items; mkdir, open or json.dump may raise, and nothing in main
\* catches that
MainDump ==
    /\ pc = "scraped"
    /\ all_items # <<>>
    /\ \E written \in BOOLEAN :
         IF written
         THEN /\ dump' = all_items
              /\ events' = Append(events, "dump")
              /\ pc' = "connect"
         ELSE /\ pc' = "crashed"
              /\ UNCHANGED << dump, events >>
    /\ UNCHANGED << scrapeVars, upsertVars, heartbeatVars, normVars, parseVars >>

\* "from supabase_client import SupabaseSuperbid; supabase = SupabaseSuperbid()":
\* the constructor raises ValueError without its two environment variables
MainConnect ==
    /\ pc = "connect"
    /\ events' = Append(events, "connect")
    /\ \E constructed \in BOOLEAN :
         pc' = IF constructed THEN "test" ELSE "final_stats"
    /\ UNCHANGED dump
    /\ UNCHANGED << scrapeVars, upsertVars, heartbeatVars, normVars, parseVars >>

\* a faulty main whose try does not cover the test: its exception ends main
MainTestFatal ==
    /\ pc = "test"
    /\ events' = Append(events, "test")
    /\ \E outcome \in TestOutcomes :
         pc' = CASE outcome = "true"  -> "upsert"
                 [] outcome = "false" -> "final_stats"
                 [] OTHER             -> "crashed"
    /\ UNCHANGED dump
    /\ UNCHANGED << scrapeVars, upsertVars, heartbeatVars, normVars, parseVars >>

\* "if not supabase.test(): ... else: stats = supabase.upsert(items)"
MainTest ==
    /\ pc = "test"
    /\ events' = Append(events, "test")
    /\ \E outcome \in TestOutcomes :
         pc' = IF outcome = "true" THEN "upsert" ELSE "final_stats"
    /\ UNCHANGED dump
    /\ UNCHANGED << scrapeVars, upsertVars, heartbeatVars, normVars, parseVars >>

\* "stats = supabase.upsert(items)" and the printing of its result
MainUpsert ==
    /\ pc = "upsert"
    /\ events' = Append(events, "upsert")
    /\ UpsertBegin(AsRuns(all_items))
    /\ pc' = IF UpsertEntry(AsRuns(all_items)).pc = "done"
             THEN "final_stats"
             ELSE "upsert_post"
    /\ UNCHANGED << dump, up_raised, posted >>
    /\ UNCHANGED << scrapeVars, heartbeatVars, normVars, parseVars >>

\* the final statistics
MainFinalStats ==
    /\ pc = "final_stats"
    /\ events' = Append(events, "final_stats")
    /\ pc' = "done"
    /\ UNCHANGED dump
    /\ UNCHANGED << scrapeVars, upsertVars, heartbeatVars, normVars, parseVars >>

MainInit ==
    /\ pc = "fetch"
    /\ dump = <<>>
    /\ events = <<>>

-----------------------------------------------------------------------------
(* The specifications *)

UpsertIdle ==
    /\ up_pc = "idle"
    /\ up_input = <<>>
    /\ up_prepared = <<>>
    /\ up_errors = 0
    /\ up_stats = ZeroStats
    /\ up_i = 0
    /\ up_result = ZeroStats
    /\ up_raised = FALSE
    /\ posted = <<>>

\* SupabaseSuperbid.__init__: the heartbeat is enabled, the metrics are 0
HeartbeatNew ==
    /\ heartbeat_metrics = [items_processed |-> 0, categories_scraped |-> 0,
                            errors |-> 0, warnings |-> 0]
    /\ heartbeat_enabled = TRUE
    /\ hb_sent = [posts |-> 0, failed |-> 0]

NormIdle ==
    /\ n_pc = "idle"
    /\ n_items = <<>>
    /\ n_result = <<>>

\* no call of _parse_offer outside a page of the feed was made
ParseIdle ==
    /\ po_offer = <<>>
    /\ po_item = <<>>

Scrape ==
    \/ FetchHttpError
    \/ FetchException
    \/ FetchEmpty
    \/ FetchPage
    \/ FetchUnsized
    \/ ParseNext
    \/ NextSection
    \/ ScrapeReturn

Main ==
    \/ MainNoItems
    \/ MainDump
    \/ MainConnect
    \/ MainTest
    \/ MainUpsert
    \/ MainFinalStats

\* main() against feeds that serve finitely many non-empty pages
Init == ScrapeInit(FiniteFeeds) /\ MainInit /\ UpsertIdle /\ HeartbeatNew /\ NormIdle /\ ParseIdle

Next == Scrape \/ Main

Spec == Init /\ [][Next]_vars

\* main() against any feed; the program is one thread that runs until it returns
FairInit == ScrapeInit(AnyFeeds) /\ MainInit /\ UpsertIdle /\ HeartbeatNew /\ NormIdle /\ ParseIdle

FairSpec == FairInit /\ [][Next]_vars /\ WF_vars(Next)


\* upsert(items) called on a fresh or heartbeat-disabled client, outside main()
ScrapeOff ==
    /\ pc = "off"
    /\ sec = 0
    /\ page_num = 0
    /\ consecutive_errors = 0
    /\ remaining = 0
    /\ items = <<>>
    /\ all_items = <<>>
    /\ global_ids = {}
    /\ stats = [total_scraped |-> 0, by_category |-> <<>>, duplicates |-> 0,
                with_bids |-> 0]
    /\ skipped = 0
    /\ feedLeft = 0
    /\ last_fetch = "none"
    /\ dump = <<>>
    /\ events = <<>>

S_SP == << "s", "p" >>

S_Campinas == << "C", "a", "m", "p", "i", "n", "a", "s" >>

\* an item as upsert expects it: the offer of the feed under raw_data
RawItem(i) ==
    PyDict([ external_id |-> PyStr(S_superbid_ \o IntToStr(i)),
             scraped_at |-> PyStr(<< "2", "0", "2", "5" >>),
             raw_data |-> PyDict([ id |-> PyInt(i),
                                   hasBids |-> PyBool(TRUE),
                                   totalBids |-> PyInt(3),
                                   product |-> PyDict([
                                       galleryJson |-> PyList(<< PyStr(<< "a" >>) >>),
                                       location |->
                                       PyDict([ city  |-> PyStr(S_Campinas),
                                                state |-> PyStr(S_SP) ]) ]) ]) ])

\* the same without its external_id
AnonymousItem(i) == PyDict([ raw_data |-> PyDict([ id |-> PyInt(i) ]) ])

\* an item whose template holds no list of groups
BrokenItem(i) ==
    PyDict([ external_id |-> PyStr(S_superbid_ \o IntToStr(i)),
             raw_data |-> PyDict([ id |-> PyInt(i),
                                   product |-> PyDict([ template |->
                                       PyDict([ groups |-> None ]) ]) ]) ])

\* an item as _parse_offer returns it: no raw_data
ScrapedItem(i) ==
    ParseOffer([ id |-> PyInt(i), store |-> PyDict([name |-> PyStr(S_store)]),
                 price |-> PyFloat(150000), hasBids |-> PyBool(TRUE) ], 1)

\* an item whose offer holds its id and nothing else
BareItem(i) ==
    PyDict([ external_id |-> PyStr(S_superbid_ \o IntToStr(i)),
             raw_data |-> PyDict([ id |-> PyInt(i) ]) ])

UpsertItems ==
    { RawItem(1), BareItem(2), AnonymousItem(1), BrokenItem(1), ScrapedItem(1) }

\* run lengths: one item, and a full batch
RunSizes == { 1, batch_size }

\* the runs of an input: full batches of every item but the bare one
UpsertRuns ==
    { r \in [ item : UpsertItems, count : RunSizes ] :
          r.item = BareItem(2) => r.count = 1 }

UpsertInputs == UNION { [1..n -> UpsertRuns] : n \in 0..MaxRuns }

\* upsert(items)
UpsertCall ==
    /\ up_pc = "idle"
    /\ \E input \in UpsertInputs : UpsertBegin(input)
    /\ UNCHANGED << up_raised, posted, heartbeatVars >>
    /\ UNCHANGED << scrapeVars, mainVars, normVars, parseVars >>

UpsertInit ==
    /\ ScrapeOff
    /\ UpsertIdle
    /\ heartbeat_metrics = [items_processed |-> 0, categories_scraped |-> 0,
                            errors |-> 0, warnings |-> 0]
    /\ heartbeat_enabled \in BOOLEAN
    /\ hb_sent = [posts |-> 0, failed |-> 0]
    /\ NormIdle
    /\ ParseIdle

UpsertNext ==
    \/ UpsertCall
    \/ PostBatchInserted
    \/ PostBatchRefused
    \/ PostBatchRaises
    \/ heartbeat_start
    \/ heartbeat_success
    \/ heartbeat_error
    \/ heartbeat_warning

SpecUpsert == UpsertInit /\ [][UpsertNext]_vars

-----------------------------------------------------------------------------
(* normalizer.py: the regular expressions of re.sub, as a backtracking matcher *)

\* no upper limit of a repetition
Unbounded == 0 - 1

Eps == [k |-> "eps"]
\* [abc] and [^abc]
In(cs) == [k |-> "in", cs |-> cs]
NotIn(cs) == [k |-> "notin", cs |-> cs]
Cat(a, b) == [k |-> "cat", a |-> a, b |-> b]
Alt(a, b) == [k |-> "alt", a |-> a, b |-> b]
\* r{lo,hi}, greedy
Rep(r, lo, hi) == [k |-> "rep", r |-> r, lo |-> lo, hi |-> hi]
\* ^, $ and \b
Bol == [k |-> "bol"]
Eol == [k |-> "eol"]
Wb == [k |-> "wb"]

RECURSIVE CatAll(_)
CatAll(rs) == IF Len(rs) = 1 THEN rs[1] ELSE Cat(Head(rs), CatAll(Tail(rs)))

\* a literal text, and the same under re.IGNORECASE
RECURSIVE Lit(_)
Lit(text) ==
    IF Len(text) = 1 THEN In({ text[1] })
    ELSE Cat(In({ Head(text) }), Lit(Tail(text)))

RECURSIVE LitI(_)
LitI(text) ==
    IF Len(text) = 1 THEN In({ LowerChar(text[1]), UpperChar(text[1]) })
    ELSE Cat(In({ LowerChar(Head(text)), UpperChar(Head(text)) }), LitI(Tail(text)))

WordChars == Range(LowerLetters) \cup Range(UpperLetters) \cup Digits \cup { "_", "ª", "º" }

\* \s, \d, \w, and their one-or-more and zero-or-more repetitions
ReSpace == In(Spaces)
ReDigit == In(Digits)
ReSpaces1 == Rep(ReSpace, 1, Unbounded)
ReSpaces0 == Rep(ReSpace, 0, Unbounded)
ReDigits1 == Rep(ReDigit, 1, Unbounded)

\* whether position i of s holds a \w character (outside s: no)
WordAt(s, i) == i >= 1 /\ i <= Len(s) /\ IsWordChar(s[i])

\* the positions at which a match of r that starts at position i of s may end,
\* in the order the backtracking matcher tries them
RECURSIVE Ends(_, _, _)
RECURSIVE EndsAfter(_, _, _)
RECURSIVE RepEnds(_, _, _, _, _)
RECURSIVE RepAfter(_, _, _, _, _, _)

Ends(r, s, i) ==
    CASE r.k = "eps"   -> << i >>
      [] r.k = "in"    -> IF i <= Len(s) /\ s[i] \in r.cs THEN << i + 1 >> ELSE <<>>
      [] r.k = "notin" -> IF i <= Len(s) /\ s[i] \notin r.cs THEN << i + 1 >> ELSE <<>>
      [] r.k = "bol"   -> IF i = 1 THEN << i >> ELSE <<>>
      [] r.k = "eol"   -> IF i = Len(s) + 1 \/ (i = Len(s) /\ s[i] = "\n")
                          THEN << i >> ELSE <<>>
      [] r.k = "wb"    -> IF WordAt(s, i - 1) # WordAt(s, i) THEN << i >> ELSE <<>>
      [] r.k = "cat"   -> Bind(Ends(r.a, s, i), LAMBDA js : EndsAfter(js, r.b, s))
      [] r.k = "alt"   -> Ends(r.a, s, i) \o Ends(r.b, s, i)
      [] r.k = "rep"   -> RepEnds(r.r, r.lo, r.hi, s, i)

EndsAfter(js, r, s) ==
    IF js = <<>> THEN <<>>
    ELSE Ends(r, s, Head(js)) \o EndsAfter(Tail(js), r, s)

RepEnds(r, lo, hi, s, i) ==
    (IF hi = 0 THEN <<>>
     ELSE Bind(Ends(r, s, i),
               LAMBDA js : RepAfter(js, i, r, IF lo > 0 THEN lo - 1 ELSE 0,
                                    IF hi > 0 THEN hi - 1 ELSE hi, s)))
    \o (IF lo <= 0 THEN << i >> ELSE <<>>)

\* one more repetition after each end js of the last one, an empty one excepted
RepAfter(js, i, r, lo, hi, s) ==
    IF js = <<>> THEN <<>>
    ELSE (IF Head(js) > i THEN RepEnds(r, lo, hi, s, Head(js)) ELSE <<>>)
         \o RepAfter(Tail(js), i, r, lo, hi, s)

\* the first way r1 r2 matches at i: where r1 ends (z) and where r2 ends (j)
RECURSIVE FirstMatch(_, _, _)
FirstMatch(zs, r2, s) ==
    IF zs = <<>> THEN [found |-> FALSE, z |-> 0, j |-> 0]
    ELSE Bind(Ends(r2, s, Head(zs)),
              LAMBDA e : IF e # <<>> THEN [found |-> TRUE, z |-> Head(zs), j |-> Head(e)]
                         ELSE FirstMatch(Tail(zs), r2, s))

\* re.sub of the pattern r1(r2) by repl followed by the group, at position i of s:
\* what is written (the replacement for a match, the character itself for none;
\* an empty match writes both) and the position the scan goes on from
SubAt(r1, r2, repl, s, i) ==
    Bind(Bind(Ends(r1, s, i), LAMBDA zs : FirstMatch(zs, r2, s)),
         LAMBDA m :
           IF ~m.found
           THEN [out |-> IF i <= Len(s) THEN << s[i] >> ELSE <<>>, next |-> i + 1]
           ELSE IF m.j = i
           THEN [out |-> repl \o (IF i <= Len(s) THEN << s[i] >> ELSE <<>>),
                 next |-> i + 1]
           ELSE [out |-> repl \o SubSeq(s, m.z, m.j - 1), next |-> m.j])

\* the scan over the positions a..b, entered at position i >= a: the positions
\* before i are skipped (a match has consumed them)
RECURSIVE SubScan(_, _, _, _, _, _, _)
SubScan(r1, r2, repl, s, a, b, i) ==
    IF i > b THEN [out |-> <<>>, next |-> i]
    ELSE IF a = b THEN SubAt(r1, r2, repl, s, i)
    ELSE Bind(SubScan(r1, r2, repl, s, a, (a + b) \div 2, i), LAMBDA left :
         Bind(SubScan(r1, r2, repl, s, ((a + b) \div 2) + 1, b, left.next),
              LAMBDA right : [out |-> left.out \o right.out, next |-> right.next]))

\* re.sub of the pattern r1(r2), from position i on
SubFrom(r1, r2, repl, s, i) == SubScan(r1, r2, repl, s, 1, Len(s) + 1, i).out

\* re.sub(r, repl, s)
Sub(r, repl, s) == Bind(s, LAMBDA t : SubFrom(r, Eps, repl, t, 1))

\* re.sub(r1(r2), r'\1', s)
SubGroup(r1, r2, s) == Bind(s, LAMBDA t : SubFrom(r1, r2, <<>>, t, 1))

\* str.replace(old, new)
Replace(s, old, new) == Sub(Lit(old), new, s)

-----------------------------------------------------------------------------
(* normalizer.py: UniversalNormalizer, the title of a listing *)

S_megaleiloes == << "m", "e", "g", "a", "l", "e", "i", "l", "o", "e", "s" >>
S_megaleiloes_ == S_megaleiloes \o << "_" >>
\* "if len(clean) > 200: clean = clean[:197] + '...'"
Truncate(clean) ==
    IF Len(clean) > 200 THEN Slice(clean, 0, 197) \o << ".", ".", "." >> ELSE clean

\* -j\d+$ under re.IGNORECASE
RE_AuctionCode == CatAll(<< In({ "-" }), In({ "j", "J" }), ReDigits1, Eol >>)
\* -\d{5,}$
RE_LongNumber == CatAll(<< In({ "-" }), Rep(ReDigit, 5, Unbounded), Eol >>)
\* [^\w\s]
RE_Special == NotIn(WordChars \cup Spaces)

\* _extract_title_from_external_id(external_id) for a str external_id
_extract_title_from_external_id(external_id) ==
    IF external_id = <<>> THEN S_SemTitulo
    ELSE
    Bind(IF StartsWith(external_id, S_megaleiloes_)
         THEN SubSeq(external_id, Len(S_megaleiloes_) + 1, Len(external_id))
         ELSE external_id, LAMBDA c1 :
    Bind(Sub(RE_AuctionCode, <<>>, c1), LAMBDA c2 :
    Bind(Sub(RE_LongNumber, <<>>, c2), LAMBDA c3 :
    Bind(ReplaceChar(ReplaceChar(c3, "-", << " " >>), "_", << " " >>), LAMBDA c4 :
    Bind(Sub(ReSpaces1, << " " >>, c4), LAMBDA c5 :
    Bind(Strip(c5), LAMBDA c6 :
    Bind(Sub(RE_Special, <<>>, c6), LAMBDA c7 :
    Bind(Truncate(c7), LAMBDA c8 :
    IF c8 = <<>> THEN S_SemTitulo ELSE c8))))))))

\* the en dash and the em dash, each one character
EnDash == "ndash"
EmDash == "mdash"

\* ^LOTE\s+\d+\s*[-:(en dash)(em dash)]?\s* under re.IGNORECASE
RE_Lote ==
    CatAll(<< Bol, LitI(<< "l", "o", "t", "e" >>), ReSpaces1, ReDigits1, ReSpaces0,
              Rep(In({ "-", ":", EnDash, EmDash }), 0, 1), ReSpaces0 >>)
\* <[^>]+>
RE_Tag == CatAll(<< In({ "<" }), Rep(NotIn({ ">" }), 1, Unbounded), In({ ">" }) >>)
\* \d+[ªº]\s*pra[çc]a under re.IGNORECASE
RE_Praca ==
    CatAll(<< ReDigits1, In({ "ª", "º" }), ReSpaces0, LitI(<< "p", "r", "a" >>),
              In({ "ç", "Ç", "c", "C" }), In({ "a", "A" }) >>)
\* \d+%\s*(?:abaixo|desconto|off)?\s*na\s*\d+[ªº]\s*pra[çc]a under re.IGNORECASE
RE_DiscountPraca ==
    CatAll(<< ReDigits1, In({ "%" }), ReSpaces0,
              Rep(Alt(LitI(<< "a", "b", "a", "i", "x", "o" >>),
                      Alt(LitI(<< "d", "e", "s", "c", "o", "n", "t", "o" >>),
                          LitI(<< "o", "f", "f" >>))), 0, 1),
              ReSpaces0, LitI(<< "n", "a" >>), ReSpaces0, RE_Praca >>)
\* \s*,?\s*Placa\s+FINAL\s+\d+\s*\([A-Z]{2}\)\s*,? under re.IGNORECASE
RE_Placa ==
    CatAll(<< ReSpaces0, Rep(In({ "," }), 0, 1), ReSpaces0,
              LitI(<< "p", "l", "a", "c", "a" >>), ReSpaces1,
              LitI(<< "f", "i", "n", "a", "l" >>), ReSpaces1, ReDigits1, ReSpaces0,
              In({ "(" }),
              Rep(In({ LowerLetters[k] : k \in 1..26 } \cup { UpperLetters[k] : k \in 1..26 }),
                  2, 2),
              In({ ")" }), ReSpaces0, Rep(In({ "," }), 0, 1) >>)
\* \b0+(\d{1,2})\b: the zeros, and the group
RE_LeadingZeros == Cat(Wb, Rep(In({ "0" }), 1, Unbounded))
RE_ShortNumber == Cat(Rep(ReDigit, 1, 2), Wb)
\* R\$\s*[\d.,]+
RE_Money ==
    CatAll(<< In({ "R" }), In({ "$" }), ReSpaces0,
              Rep(In(Digits \cup { ".", "," }), 1, Unbounded) >>)
\* \b\d+\s+\d+\s+\d+\b
RE_Counters ==
    CatAll(<< Wb, ReDigits1, ReSpaces1, ReDigits1, ReSpaces1, ReDigits1, Wb >>)

\* str.rstrip(',')
RECURSIVE RStripCommas(_)
RStripCommas(s) ==
    IF s # <<>> /\ s[Len(s)] = "," THEN RStripCommas(SubSeq(s, 1, Len(s) - 1)) ELSE s

\* the five HTML entities _clean_title replaces, in the code's order
Unescape(s) ==
    Bind(Replace(s, << "&", "n", "b", "s", "p", ";" >>, << " " >>), LAMBDA e1 :
    Bind(Replace(e1, << "&", "a", "m", "p", ";" >>, << "&" >>), LAMBDA e2 :
    Bind(Replace(e2, << "&", "l", "t", ";" >>, << "<" >>), LAMBDA e3 :
    Bind(Replace(e3, << "&", "g", "t", ";" >>, << ">" >>), LAMBDA e4 :
    Replace(e4, << "&", "q", "u", "o", "t", ";" >>, << "\"" >>)))))

\* _clean_title(title, remove_auction_info=True) for any value title
_clean_title(title) ==
    IF ~Truthy(title) \/ Strip(PyToStr(title)) = <<>> THEN S_SemTitulo
    ELSE
    Bind(Strip(PyToStr(title)), LAMBDA c0 :
    Bind(Sub(RE_Lote, <<>>, c0), LAMBDA c1 :
    Bind(Sub(RE_Tag, <<>>, c1), LAMBDA c2 :
    Bind(Unescape(c2), LAMBDA c3 :
    Bind(Sub(RE_DiscountPraca, <<>>, c3), LAMBDA c4 :
    Bind(Sub(RE_Praca, <<>>, c4), LAMBDA c5 :
    Bind(Strip(RStripCommas(c5)), LAMBDA c6 :
    Bind(Sub(RE_Placa, <<>>, c6), LAMBDA c7 :
    Bind(ReplaceChar(c7, "_", << " " >>), LAMBDA c8 :
    Bind(Sub(ReSpaces1, << " " >>, c8), LAMBDA c9 :
    Bind(SubGroup(RE_LeadingZeros, RE_ShortNumber, Strip(c9)), LAMBDA c10 :
    Bind(Sub(RE_Money, <<>>, c10), LAMBDA c11 :
    Bind(Sub(RE_Counters, <<>>, c11), LAMBDA c12 :
    Bind(Sub(ReSpaces1, << " " >>, c12), LAMBDA c13 :
    Bind(Truncate(Strip(c13)), LAMBDA c14 :
    IF c14 # <<>> THEN c14 ELSE S_SemTitulo)))))))))))))))

LOWERCASE_WORDS ==
    { << "d", "e" >>, << "d", "a" >>, << "d", "o" >>, << "d", "a", "s" >>,
      << "d", "o", "s" >>, << "e" >>, << "e", "m" >>, << "c", "o", "m" >>,
      << "p", "a", "r", "a" >>, << "p", "o", "r" >>, << "a" >>, << "o" >>, << "à" >>,
      << "a", "o" >>, << "n", "o" >>, << "n", "a" >>, << "u", "m" >>,
      << "u", "m", "a" >> }

\* one word of _smart_title_case after the first
TitleWord(word) ==
    IF IsUpper(word) /\ Len(word) <= 5 THEN word
    ELSE IF Lower(word) \in LOWERCASE_WORDS THEN Lower(word)
    ELSE Capitalize(word)

\* _smart_title_case(text)
_smart_title_case(text) ==
    Bind(text, LAMBDA t :
    Bind(Split(t), LAMBDA words :
        IF t = <<>> \/ words = <<>> THEN t
        ELSE Join(<< Capitalize(words[1]) >>
                  \o [k \in 1..(Len(words) - 1) |-> TitleWord(words[k + 1])])))

-----------------------------------------------------------------------------
(* normalizer.py: UniversalNormalizer, the fields other than the title *)

VALID_STATES ==
    { << "A", "C" >>, << "A", "L" >>, << "A", "P" >>, << "A", "M" >>, << "B", "A" >>,
      << "C", "E" >>, << "D", "F" >>, << "E", "S" >>, << "G", "O" >>, << "M", "A" >>,
      << "M", "T" >>, << "M", "S" >>, << "M", "G" >>, << "P", "A" >>, << "P", "B" >>,
      << "P", "R" >>, << "P", "E" >>, << "P", "I" >>, << "R", "J" >>, << "R", "N" >>,
      << "R", "S" >>, << "R", "O" >>, << "R", "R" >>, << "S", "C" >>, << "S", "P" >>,
      << "S", "E" >>, << "T", "O" >> }

\* a faulty _validate_state: any two letters pass, as in _prepare_item
_validate_state_by_length(state) ==
    IF ~Truthy(state) THEN None
    ELSE Bind(Upper(Strip(PyToStr(state))), LAMBDA state_clean :
             IF Len(state_clean) = 2 THEN PyStr(state_clean) ELSE None)

\* _validate_state(state)
_validate_state(state) ==
    IF ~Truthy(state) THEN None
    ELSE Bind(Upper(Strip(PyToStr(state))), LAMBDA state_clean :
             IF state_clean \in VALID_STATES THEN PyStr(state_clean) ELSE None)

\* float('nan'): the float that is no number
PyNaN == [t |-> "nan", v |-> 0]

\* s.split(c)[0]
Before(s, c) ==
    IF \A i \in DOMAIN s : s[i] # c THEN s
    ELSE SubSeq(s, 1, (CHOOSE i \in DOMAIN s : s[i] = c /\ \A j \in 1..(i - 1) : s[j] # c) - 1)

\* what follows the first c of s
After(s, c) ==
    IF \A i \in DOMAIN s : s[i] # c THEN <<>>
    ELSE SubSeq(s, (CHOOSE i \in DOMAIN s : s[i] = c /\ \A j \in 1..(i - 1) : s[j] # c) + 1,
                Len(s))

\* float(s) for a str: [kind |-> "error"] for the ValueError, "nan", or "num" with
\* the sign and the magnitude in thousandths. The literals read are
\* [sign] digits [. digits], [sign] . digits and [sign] nan, surrounded by white
\* space; of the fraction the first three digits count
FloatOfStr(s) ==
    Bind(Strip(s), LAMBDA t :
    Bind(IF t # <<>> /\ t[1] \in { "-", "+" } THEN Tail(t) ELSE t, LAMBDA body :
    Bind(Before(body, "."), LAMBDA whole :
    Bind(After(body, "."), LAMBDA frac :
        IF Lower(body) = << "n", "a", "n" >> THEN [kind |-> "nan", neg |-> FALSE, m |-> 0]
        ELSE IF /\ whole \o frac # <<>>
                /\ \A i \in DOMAIN whole : IsDigit(whole[i])
                /\ \A i \in DOMAIN frac : IsDigit(frac[i])
        THEN [kind |-> "num", neg |-> (t[1] = "-"),
              m |-> 1000 * DigitsToInt(whole, 0)
                    + DigitsToInt(SubSeq(frac \o << "0", "0", "0" >>, 1, 3), 0)]
        ELSE [kind |-> "error", neg |-> FALSE, m |-> 0]))))

\* round(val, 2) of val >= 0 held in thousandths, in hundredths. A tie is decided
\* by the binary value of the float, which a count of thousandths does not hold:
\* the values drawn hold none
RoundCents(m) ==
    CASE m % 10 < 5 -> m \div 10
      [] m % 10 > 5 -> (m \div 10) + 1

\* _parse_value(value)
_parse_value(value) ==
    CASE value.t = "none"  -> None
      [] value.t = "nan"   -> PyNaN
      [] value.t = "int"   -> IF value.v < 0 THEN None ELSE PyFloat(100 * value.v)
      [] value.t = "bool"  -> PyFloat(IF value.v THEN 100 ELSE 0)
      [] value.t = "float" -> IF value.v < 0 THEN None ELSE value
      [] value.t = "str"   ->
            Bind(FloatOfStr(value.v), LAMBDA f :
                IF f.kind = "error" THEN None
                ELSE IF f.kind = "nan" THEN PyNaN
                ELSE IF f.neg /\ f.m > 0 THEN None
                ELSE PyFloat(RoundCents(f.m)))
      [] OTHER             -> None

\* int(value): ok, and the int n; not ok is the ValueError or TypeError
IntOf(value) ==
    CASE value.t = "int"   -> [ok |-> TRUE, n |-> value.v]
      [] value.t = "bool"  -> [ok |-> TRUE, n |-> IF value.v THEN 1 ELSE 0]
      [] value.t = "float" -> [ok |-> TRUE,
                               n |-> IF value.v >= 0 THEN value.v \div 100
                                     ELSE 0 - ((0 - value.v) \div 100)]
      [] value.t = "str"   ->
            Bind(Strip(value.v), LAMBDA t :
            Bind(IF t # <<>> /\ t[1] \in { "-", "+" } THEN Tail(t) ELSE t, LAMBDA body :
                IF IsDigitStr(body)
                THEN [ok |-> TRUE, n |-> IF t[1] = "-" THEN 0 - DigitsToInt(body, 0)
                                         ELSE DigitsToInt(body, 0)]
                ELSE [ok |-> FALSE, n |-> 0]))
      [] OTHER             -> [ok |-> FALSE, n |-> 0]

\* _parse_days_remaining(days)
_parse_days_remaining(days) ==
    IF IsNone(days) THEN None
    ELSE Bind(IntOf(days), LAMBDA d :
             IF ~d.ok THEN None ELSE IF d.n < 0 THEN PyInt(0) ELSE PyInt(d.n))

\* _parse_int(value, default)
_parse_int(value, default) ==
    IF IsNone(value) THEN PyInt(default)
    ELSE Bind(IntOf(value), LAMBDA d : IF d.ok THEN PyInt(d.n) ELSE PyInt(default))

\* _parse_date(date_str)
_parse_date(date_str) ==
    IF ~Truthy(date_str) THEN None
    ELSE IF IsStr(date_str) /\ Contains(date_str.v, << "T" >>) THEN date_str
    ELSE None

\* _clean_city(city)
_clean_city(city) ==
    IF ~Truthy(city) \/ Strip(PyToStr(city)) = <<>> THEN None
    ELSE
    Bind(Strip(PyToStr(city)), LAMBDA c0 :
    Bind(IF Contains(c0, << "/" >>) THEN Strip(Before(c0, "/")) ELSE c0, LAMBDA c1 :
    Bind(IF Contains(c1, << "-" >>) THEN Strip(Before(c1, "-")) ELSE c1, LAMBDA c2 :
        PyStr(_smart_title_case(c2)))))

\* _clean_address(address)
_clean_address(address) ==
    IF ~Truthy(address) THEN None
    ELSE
    Bind(Strip(PyToStr(address)), LAMBDA a0 :
        IF Len(a0) < 3 THEN None
        ELSE Bind(_smart_title_case(a0), LAMBDA a1 :
            PyStr(IF Len(a1) > 255 THEN Slice(a1, 0, 252) \o << ".", ".", "." >>
                  ELSE a1)))

\* _clean_text(text, default)
_clean_text(text, default) ==
    IF ~Truthy(text) \/ Strip(PyToStr(text)) = <<>> THEN default
    ELSE
    Bind(Strip(PyToStr(text)), LAMBDA c0 :
    Bind(IF IsDigitStr(c0) THEN c0 ELSE _smart_title_case(c0), LAMBDA c1 :
        PyStr(IF Len(c1) > 200 THEN Slice(c1, 0, 197) \o << ".", ".", "." >> ELSE c1)))

extra_fields ==
    { "raw_category", "condition", "brand", "model", "year", "quantity", "unit_price" }

\* _build_metadata(item): the listing's own metadata dict, or a new one, with the
\* extra fields the listing holds a value for
_build_metadata(item) ==
    LET given == Get(item, "metadata")
        base  == IF given.t = "dict" THEN given.v ELSE <<>>
        extra == { f \in extra_fields \cap DOMAIN item : ~IsNone(item[f]) }
    IN  PyDict([ k \in DOMAIN base \cup extra |->
                    IF k \in extra THEN item[k] ELSE base[k] ])

\* the accents _normalize_for_search replaces (of the letters strings are made of)
Unaccent(c) ==
    CASE c = "à" -> "a"
      [] c = "í" -> "i"
      [] c = "ç" -> "c"
      [] OTHER   -> c

\* _normalize_for_search(title) for a str title
_normalize_for_search(title) ==
    IF title = <<>> THEN <<>>
    ELSE
    Bind(Lower(title), LAMBDA n0 :
    Bind([i \in DOMAIN n0 |-> Unaccent(n0[i])], LAMBDA n1 :
    Bind(Sub(RE_Special, << " " >>, n1), LAMBDA n2 :
        Strip(Sub(ReSpaces1, << " " >>, n2)))))

S_SemDescricao ==
    << "S", "e", "m", " ", "D", "e", "s", "c", "r", "i", "ç", "ã", "o" >>

\* _create_preview(description, title): description None or a str, title a str
_create_preview(description, title) ==
    IF Truthy(description) /\ Len(description.v) > 10
    THEN Strip(Slice(description.v, 0, 150))
         \o (IF Len(description.v) > 150 THEN << ".", ".", "." >> ELSE <<>>)
    ELSE IF title # <<>> THEN Slice(title, 0, 150)
    ELSE S_SemDescricao

\* the patterns of _deep_clean_description, in the code's order:
\* <br\s*/?>, <p> and </p> under re.IGNORECASE, &#\d+;, \n\s*\n\s*\n+, " {2,}",
\* "Exibindo \d+ de \d+ itens" under re.IGNORECASE, https?://[^\s]+, \S+@\S+
\* and \(\d{2}\)\s*\d{4,5}-?\d{4}
DescriptionPatterns ==
    [ br       |-> CatAll(<< In({ "<" }), LitI(<< "b", "r" >>), ReSpaces0,
                             Rep(In({ "/" }), 0, 1), In({ ">" }) >>),
      p        |-> CatAll(<< In({ "<" }), In({ "p", "P" }), In({ ">" }) >>),
      p_end    |-> CatAll(<< In({ "<" }), In({ "/" }), In({ "p", "P" }), In({ ">" }) >>),
      entity   |-> CatAll(<< In({ "&" }), In({ "#" }), ReDigits1, In({ ";" }) >>),
      newlines |-> CatAll(<< In({ "\n" }), ReSpaces0, In({ "\n" }), ReSpaces0,
                             Rep(In({ "\n" }), 1, Unbounded) >>),
      blanks   |-> Rep(In({ " " }), 2, Unbounded),
      exibindo |-> CatAll(<< LitI(<< "e", "x", "i", "b", "i", "n", "d", "o", " " >>),
                             ReDigits1, LitI(<< " ", "d", "e", " " >>), ReDigits1,
                             LitI(<< " ", "i", "t", "e", "n", "s" >>) >>),
      url      |-> CatAll(<< Lit(<< "h", "t", "t", "p" >>), Rep(In({ "s" }), 0, 1),
                             Lit(<< ":", "/", "/" >>),
                             Rep(NotIn(Spaces), 1, Unbounded) >>),
      email    |-> CatAll(<< Rep(NotIn(Spaces), 1, Unbounded), In({ "@" }),
                             Rep(NotIn(Spaces), 1, Unbounded) >>),
      phone    |-> CatAll(<< In({ "(" }), Rep(ReDigit, 2, 2), In({ ")" }), ReSpaces0,
                             Rep(ReDigit, 4, 5), Rep(In({ "-" }), 0, 1),
                             Rep(ReDigit, 4, 4) >>) ]

\* '\n'.join of the stripped lines of desc that are not empty
RECURSIVE JoinLines(_)
JoinLines(desc) ==
    IF desc = <<>> THEN <<>>
    ELSE Bind(Strip(Before(desc, "\n")), LAMBDA line :
         Bind(JoinLines(After(desc, "\n")), LAMBDA rest :
             IF line = <<>> THEN rest
             ELSE IF rest = <<>> THEN line
             ELSE line \o << "\n" >> \o rest))

\* _deep_clean_description(description, remove_auction_info)
_deep_clean_description(description, remove_auction_info) ==
    IF ~Truthy(description) THEN None
    ELSE IF Len(Strip(PyToStr(description))) < 5 THEN None
    ELSE
    Bind(Strip(PyToStr(description)), LAMBDA d0 :
    Bind(Sub(DescriptionPatterns.br, << "\n" >>, d0), LAMBDA d1 :
    Bind(Sub(DescriptionPatterns.p, << "\n", "\n" >>, d1), LAMBDA d2 :
    Bind(Sub(DescriptionPatterns.p_end, << "\n" >>, d2), LAMBDA d3 :
    Bind(Sub(RE_Tag, <<>>, d3), LAMBDA d4 :
    Bind(Unescape(d4), LAMBDA d5 :
    Bind(Sub(DescriptionPatterns.entity, <<>>, d5), LAMBDA d6 :
    Bind(IF remove_auction_info THEN Sub(RE_DiscountPraca, <<>>, d6) ELSE d6, LAMBDA d7 :
    Bind(Sub(DescriptionPatterns.newlines, << "\n", "\n" >>, d7), LAMBDA d8 :
    Bind(Sub(DescriptionPatterns.blanks, << " " >>, d8), LAMBDA d9 :
    Bind(JoinLines(d9), LAMBDA d10 :
    Bind(Sub(DescriptionPatterns.exibindo, <<>>, d10), LAMBDA d11 :
    Bind(Sub(DescriptionPatterns.url, <<>>, d11), LAMBDA d12 :
    Bind(Sub(DescriptionPatterns.email, <<>>, d12), LAMBDA d13 :
    Bind(Sub(DescriptionPatterns.phone, <<>>, d13), LAMBDA d14 :
    Bind(Strip(Sub(ReSpaces1, << " " >>, d14)), LAMBDA d15 :
    Bind(IF Len(d15) > 5000 THEN Slice(d15, 0, 4997) \o << ".", ".", "." >> ELSE d15,
         LAMBDA d16 :
    IF d16 # <<>> THEN PyStr(d16) ELSE None)))))))))))))))))

S_Leilao == << "L", "e", "i", "l", "ã", "o" >>

\* a faulty return dict: the keys without a value are left out
normalized_sparse(item, clean_title, clean_description) ==
    LET full ==
        [ source |-> Get(item, "source"),
              external_id |-> Get(item, "external_id"),
              title |-> PyStr(clean_title),
              normalized_title |-> PyStr(_normalize_for_search(clean_title)),
              description |-> clean_description,
              description_preview |-> PyStr(_create_preview(clean_description, clean_title)),
              value |-> _parse_value(Get(item, "value")),
              value_text |-> Get(item, "value_text"),
              auction_round |-> Get(item, "auction_round"),
              discount_percentage |-> Get(item, "discount_percentage"),
              first_round_value |-> _parse_value(Get(item, "first_round_value")),
              first_round_date |-> Get(item, "first_round_date"),
              city |-> _clean_city(Get(item, "city")),
              state |-> _validate_state(Get(item, "state")),
              address |-> _clean_address(Get(item, "address")),
              auction_date |-> _parse_date(Get(item, "auction_date")),
              days_remaining |-> _parse_days_remaining(Get(item, "days_remaining")),
              auction_type |-> _clean_text(Get(item, "auction_type"), PyStr(S_Leilao)),
              auction_name |-> _clean_text(Get(item, "auction_name"), None),
              store_name |-> _clean_text(Get(item, "store_name"), None),
              lot_number |-> _clean_text(Get(item, "lot_number"), None),
              total_visits |-> _parse_int(Get(item, "total_visits"), 0),
              total_bids |-> _parse_int(Get(item, "total_bids"), 0),
              total_bidders |-> _parse_int(Get(item, "total_bidders"), 0),
              link |-> Get(item, "link"),
              vehicle_type |-> Get(item, "vehicle_type"),
              property_type |-> Get(item, "property_type"),
              animal_type |-> Get(item, "animal_type"),
              metadata |-> _build_metadata(item) ]
    IN  [ k \in { c \in DOMAIN full : ~IsNone(full[c]) } |-> full[k] ]

\* the dict normalize returns
normalized(item, clean_title, clean_description) ==
    [ source |-> Get(item, "source"),
      external_id |-> Get(item, "external_id"),
      title |-> PyStr(clean_title),
      normalized_title |-> PyStr(_normalize_for_search(clean_title)),
      description |-> clean_description,
      description_preview |-> PyStr(_create_preview(clean_description, clean_title)),
      value |-> _parse_value(Get(item, "value")),
      value_text |-> Get(item, "value_text"),
      auction_round |-> Get(item, "auction_round"),
      discount_percentage |-> Get(item, "discount_percentage"),
      first_round_value |-> _parse_value(Get(item, "first_round_value")),
      first_round_date |-> Get(item, "first_round_date"),
      city |-> _clean_city(Get(item, "city")),
      state |-> _validate_state(Get(item, "state")),
      address |-> _clean_address(Get(item, "address")),
      auction_date |-> _parse_date(Get(item, "auction_date")),
      days_remaining |-> _parse_days_remaining(Get(item, "days_remaining")),
      auction_type |-> _clean_text(Get(item, "auction_type"), PyStr(S_Leilao)),
      auction_name |-> _clean_text(Get(item, "auction_name"), None),
      store_name |-> _clean_text(Get(item, "store_name"), None),
      lot_number |-> _clean_text(Get(item, "lot_number"), None),
      total_visits |-> _parse_int(Get(item, "total_visits"), 0),
      total_bids |-> _parse_int(Get(item, "total_bids"), 0),
      total_bidders |-> _parse_int(Get(item, "total_bidders"), 0),
      link |-> Get(item, "link"),
      vehicle_type |-> Get(item, "vehicle_type"),
      property_type |-> Get(item, "property_type"),
      animal_type |-> Get(item, "animal_type"),
      metadata |-> _build_metadata(item) ]

\* normalize(item): the record, or the AttributeError of .lower() on a source, or
\* of .startswith() on an external_id, that is no str (every other field is
\* computed by a helper that catches its own errors)
normalize(item) ==
    LET source == GetOr(item.v, "source", PyStr(<<>>))
        external_id == GetOr(item.v, "external_id", PyStr(<<>>))
        raw_title == GetOr(item.v, "title", PyStr(<<>>))
        raw_description == GetOr(item.v, "description", PyStr(<<>>))
        from_id == Lower(source.v) = S_megaleiloes /\ Truthy(external_id)
    IN  IF ~IsStr(source) THEN [kind |-> "raise", rec |-> <<>>]
        ELSE IF from_id /\ ~IsStr(external_id) THEN [kind |-> "raise", rec |-> <<>>]
        ELSE Bind(_smart_title_case(IF from_id
                                    THEN _extract_title_from_external_id(external_id.v)
                                    ELSE _clean_title(raw_title)), LAMBDA clean_title :
             Bind(_deep_clean_description(raw_description, TRUE), LAMBDA clean_description :
                 [kind |-> "record",
                  rec |-> normalized(item.v, clean_title, clean_description)]))

-----------------------------------------------------------------------------
(* normalizer.py: normalize_items *)

S_superbid == << "s", "u", "p", "e", "r", "b", "i", "d" >>

\* the values a raw listing holds under 'source'
RawSources ==
    { PyStr(S_megaleiloes), PyStr(<< "M", "e", "g", "a" >> \o SubSeq(S_megaleiloes, 5, 11)),
      PyStr(S_superbid), PyStr(<<>>), None, PyInt(5) }

\* the values a raw listing holds under 'external_id': slugs with an auction
\* code, of punctuation alone, empty, None, and a number
RawExternalIds ==
    { PyStr(S_megaleiloes_ \o << "s", "o", "f", "a", "-", "d", "e", "-", "U", "S", "B",
                                 "-", "j", "1", "1", "9" >>),
      PyStr(S_megaleiloes_ \o << ".", "-", "." >>),
      PyStr(S_megaleiloes_ \o << "-", "J", "1" >>),
      PyStr(<< "t", "v", "_", "l", "g", "-", "1", "2", "3", "4", "5" >>),
      PyStr(<<>>), None, PyInt(7) }

\* the values a raw listing holds under 'title'
RawTitles ==
    { PyStr(<< "L", "O", "T", "E", " ", "0", "5", " ", "-", " ", "c", "a", "s", "a" >>),
      PyStr(<< "<", "b", ">", "T", "V", "<", "/", "b", ">", " ", "2", "ª", " ",
               "p", "r", "a", "ç", "a", "," >>),
      PyStr(<< "R", "$", " ", "1", "0", " ", "_" >>),
      PyStr(<< " ", "_", " " >>),
      PyStr(<<>>), None, PyInt(0) }

\* the raw listings: any value under any of the three keys, and listings that
\* lack the keys
RawListings ==
    { PyDict([ source |-> s, external_id |-> e ]) :
        s \in RawSources, e \in RawExternalIds }
    \cup { PyDict([ source |-> PyStr(S_superbid), external_id |-> PyStr(S_superbid_ \o << "1" >>),
                    title |-> t ]) : t \in RawTitles }
    \cup { PyDict([ title |-> t ]) : t \in RawTitles }
    \cup { EmptyDict }

\* normalize_items(items) is called
normalize_items ==
    /\ n_pc = "idle"
    /\ \E n \in 0..MaxItems : \E input \in [1..n -> RawListings] : n_items' = input
    /\ n_result' = <<>>
    /\ n_pc' = "loop"
    /\ UNCHANGED << scrapeVars, mainVars, upsertVars, heartbeatVars, parseVars >>

\* one pass of "[normalizer.normalize(item) for item in items]": the record is
\* appended, or the exception of normalize leaves normalize_items
NormalizeNext ==
    /\ n_pc = "loop"
    /\ Len(n_result) < Len(n_items)
    /\ \E r \in { normalize(n_items[Len(n_result) + 1]) } :
           IF r.kind = "raise"
           THEN n_pc' = "raised" /\ n_result' = n_result
           ELSE n_pc' = "loop" /\ n_result' = Append(n_result, r.rec)
    /\ UNCHANGED n_items
    /\ UNCHANGED << scrapeVars, mainVars, upsertVars, heartbeatVars, parseVars >>

\* the list is returned
NormalizeReturn ==
    /\ n_pc = "loop"
    /\ Len(n_result) = Len(n_items)
    /\ n_pc' = "done"
    /\ UNCHANGED << n_items, n_result >>
    /\ UNCHANGED << scrapeVars, mainVars, upsertVars, heartbeatVars, parseVars >>

NormInit == ScrapeOff /\ UpsertIdle /\ HeartbeatNew /\ NormIdle /\ ParseIdle

NormNext ==
    \/ normalize_items
    \/ NormalizeNext
    \/ NormalizeReturn

SpecNorm == NormInit /\ [][NormNext]_vars

-----------------------------------------------------------------------------
(* normalizer.py: normalize_item *)

\* a text of n characters, in words of five letters
Words(n) == [ i \in 1..n |-> IF i % 6 = 0 THEN " " ELSE "a" ]

\* one word of n letters
Word(n) == [ i \in 1..n |-> "c" ]

\* the values a raw listing holds under 'state'
RawStates ==
    { PyStr(<< "s", "p" >>),
      PyStr(<< " ", "S", "p", " " >>),
      PyStr(<< "X", "X" >>),
      PyStr(<< "S", "P", "X" >>),
      PyStr(<< "t", "o" >>),
      PyStr(<<>>),
      None,
      PyInt(5) }

\* the values a raw listing holds under 'value' and 'first_round_value': numbers,
\* numerals, a negative amount, text, and what float() reads as no number
RawValues ==
    { None,
      PyInt(5),
      PyInt(0 - 1),
      PyFloat(350050),
      PyFloat(0 - 1),
      PyBool(TRUE),
      PyNaN,
      PyStr(<< "1", "2", ".", "3", "4", "7" >>),
      PyStr(<< " ", "5", " " >>),
      PyStr(<< "-", "3" >>),
      PyStr(<< "-", "0" >>),
      PyStr(<< "a", "b", "c" >>),
      PyStr(<< "n", "a", "n" >>),
      PyList(<< PyInt(1) >>) }

\* the values a raw listing holds under 'description': short ones, markup around a
\* short text, the phrase of a discounted round, a link, long ones, and a number
RawDescriptions ==
    { PyStr(<< "a", "b", "c", "d" >>),
      PyStr(<< "<", "b", ">", "a", "b", "<", "/", "b", ">" >>),
      PyStr(<< "<", "b", "r", ">", "x" >>),
      PyStr(<< "L", "o", "t", "e", " ", "c", "o", "m", " ", "5", "0", "%", " ", "a", "b", "a", "i", "x", "o", " ", "n", "a", " ", "2", "ª", " ", "p", "r", "a", "ç", "a", " ", "e", "m", " ", "b", "o", "m", " ", "e", "s", "t", "a", "d", "o" >>),
      PyStr(<< " ", " ", "<", "p", ">", "C", "a", "s", "a", "<", "/", "p", ">", "<", "B", "R", "/", ">", "b", "o", "a", " ", "&", "a", "m", "p", ";", " ", "n", "o", "v", "a", " ", " " >>),
      PyStr(<< "v", "e", "j", "a", " ", "h", "t", "t", "p", ":", "/", "/", "x", ".", "y", "/", "z", " ", "a", "g", "o", "r", "a", ",", " ", "t", "e", "l", " ", "(", "1", "1", ")", " ", "9", "1", "2", "3", "4", "-", "5", "6", "7", "8" >>),
      PyStr(<< "E", "x", "i", "b", "i", "n", "d", "o", " ", "1", " ", "d", "e", " ", "2", "0", " ", "i", "t", "e", "n", "s", "\n", "\n", "\n", "\n", "c", "a", "s", "a", " ", " ", "a", "@", "b", ".", "c" >>),
      PyStr(Words(150)),
      PyStr(Words(151)),
      PyStr(Words(200)),
      PyStr(<<>>),
      PyInt(12345) }

\* the values a raw listing holds under 'city'
RawCities ==
    { PyStr(<< "s", "ã", "o", " ", "p", "a", "u", "l", "o", "/", "S", "P" >>),
      PyStr(<< "r", "i", "o", " ", "-", " ", "r", "j" >>),
      PyStr(<< "/", "S", "P" >>),
      PyStr(<< "C", "A", "M", "P", "I", "N", "A", "S" >>),
      PyStr(<<>>),
      PyInt(5),
      PyStr(Word(255)),
      PyStr(Word(256)) }

\* the values a raw listing holds under 'address'
RawAddresses ==
    { PyStr(<< "a", "b" >>),
      PyStr(<< " ", "r", "u", "a", " ", "D", "A", "S", " ", "f", "l", "o", "r", "e", "s", ",", " ", "1", "0", " " >>),
      PyStr(Word(255)),
      PyStr(Word(256)),
      PyInt(123) }

\* the values a raw listing holds under 'auction_type', 'auction_name',
\* 'store_name' and 'lot_number'
RawTexts ==
    { PyStr(<< "j", "u", "d", "i", "c", "i", "a", "l" >>),
      PyStr(<< "0", "0", "7" >>),
      PyStr(<< " ", " " >>),
      PyStr(Word(200)),
      PyStr(Word(201)),
      PyInt(7) }

\* titles with more than one kind of noise
NoisyTitles ==
    { PyStr(<< "2", "ª", "_", "p", "r", "a", "ç", "a", " ", "c", "a", "s", "a" >>),
      PyStr(<< "5", "0", "%", "_", "n", "a", "_", "2", "ª", "_", "p", "r", "a", "ç", "a", " ", "x" >>),
      PyStr(<< "2", "R", "$", " ", ".", "ª", " ", "p", "r", "a", "ç", "a" >>),
      PyStr(<< "1", " ", "2", " ", "R", "$", " ", "5", " ", "3", " ", "c", "a", "s", "a" >>),
      PyStr(<< "L", "O", "T", "E", " ", "1", " ", "L", "O", "T", "E", " ", "2", " ", "c", "a", "s", "a" >>),
      PyStr(<< "a", " ", "&", "a", "m", "p", ";", "a", "m", "p", ";", " ", "b" >>),
      PyStr(<< "5", "0", "%", " ", "a", "b", "a", "i", "x", "o", " ", "n", "a", " ", "2", "ª", " ", "p", "r", "a", "ç", "a", " ", "R", "$", " ", "3", ".", "5", "0", "0", ",", "0", "0", " ", "2", "6", "2", " ", "0", " ", "1", "2", " ", "T", "V" >>),
      PyStr(Words(200)),
      PyStr(Words(201)) }

S_Casa == << "C", "a", "s", "a" >>

\* a listing of the scraper's source with a title, and one more key
Listing(key, value) ==
    PyDict([ source |-> PyStr(S_superbid), title |-> PyStr(S_Casa) ] @@ (key :> value))

\* the listings handed to normalize_item: those of normalize_items, and listings
\* with any value under one of the other keys
ItemListings ==
    RawListings
    \cup { Listing("state", v) : v \in RawStates }
    \cup { Listing(k, v) : k \in { "value", "first_round_value" }, v \in RawValues }
    \cup { Listing("description", v) : v \in RawDescriptions }
    \cup { Listing("city", v) : v \in RawCities }
    \cup { Listing("address", v) : v \in RawAddresses }
    \cup { Listing(k, v) : k \in { "auction_type", "auction_name", "store_name",
                                   "lot_number" }, v \in RawTexts }
    \cup { PyDict([ source |-> PyStr(S_superbid), title |-> t ]) : t \in NoisyTitles }
    \cup { Listing("days_remaining", v) :
               v \in { PyInt(5), PyInt(0 - 2), PyStr(<< "3" >>), PyStr(<< "x" >>), PyNaN } }
    \cup { Listing("total_bids", v) :
               v \in { PyInt(12), PyInt(0 - 4), PyFloat(0 - 250), PyStr(<< "7" >>),
                       PyStr(<< "-", "3" >>), PyStr(<< "x" >>) } }
    \cup { Listing("auction_date", v) :
               v \in { PyStr(<< "2", "0", "2", "5", "-", "0", "1", "-", "0", "1", "T",
                                "1", "0", ":", "0", "0" >>),
                       PyStr(<< "2", "0", "2", "5" >>) } }
    \cup { Listing("brand", PyStr(<< "v", "w" >>)),
           Listing("metadata", PyDict([ lot |-> PyInt(1) ])),
           Listing("metadata", PyStr(<< "x" >>)) }

\* normalize_item(item): the record of the one listing, or normalize's exception
normalize_item ==
    /\ n_pc = "idle"
    /\ \E item \in ItemListings :
         \E r \in { normalize(item) } :
           /\ n_items' = << item >>
           /\ IF r.kind = "raise"
              THEN n_pc' = "raised" /\ n_result' = <<>>
              ELSE n_pc' = "done" /\ n_result' = << r.rec >>
    /\ UNCHANGED << scrapeVars, mainVars, upsertVars, heartbeatVars, parseVars >>

ItemNext == normalize_item

SpecItem == NormInit /\ [][ItemNext]_vars

-----------------------------------------------------------------------------
(* scraper.py: _parse_offer called with one offer *)

\* a key the dict does not hold
Absent == [t |-> "absent", v |-> 0]

\* {key: value}, or {} for a key that is not there
Entry(key, value) == IF value = Absent THEN <<>> ELSE (key :> value)

\* what the feed holds under product.location.city
LocationCities ==
    { Absent, PyStr(<< "C", "a", "m", "p", "i", "n", "a", "s", " ", "-", " ", "S", "P" >>), PyStr(<< "C", "a", "m", "p", "i", "n", "a", "s", " ", "-", " ", "s", "p" >>), PyStr(<< " ", "C", "a", "m", "p", "i", "n", "a", "s", " " >>), PyStr(<< "R", "i", "o", " ", "-", " ", "S", "u", "l", " ", "-", " ", "R", "J" >>),
      PyStr(<< "C", "a", "m", "p", "i", "n", "a", "s", " ", "-", " ", "X", "X" >>), PyStr(<< "C", "a", "m", "p", "i", "n", "a", "s", " ", "-", " ", "S", "ã", "o", " ", "P", "a", "u", "l", "o" >>), PyStr(<< "C", "a", "m", "p", "i", "n", "a", "s", " ", "-", " ", "-", " ", "S", "P" >>), PyStr(<<>>), PyInt(5) }

\* what the feed holds under seller.city
SellerCities ==
    { Absent, PyStr(<< "S", "a", "n", "t", "o", "s", " ", "-", " ", "S", "P" >>), PyStr(<< "S", "a", "n", "t", "o", "s", " ", "-", " ", "B", "r", "a", "s", "i", "l", " ", "-", " ", "z", "z" >>), PyStr(<< "S", "a", "n", "t", "o", "s" >>), PyInt(5) }

\* what the feed holds under product.location.state
LocationStates ==
    { Absent, PyStr(<< "S", "ã", "o", " ", "P", "a", "u", "l", "o" >>), PyStr(<< "S", "a", "o", " ", "P", "a", "u", "l", "o" >>), PyStr(<< "S", "P" >>), PyStr(<< "x", "x" >>), PyInt(5),
      PyList(<< PyStr(<< "S", "P" >>) >>) }

S_Trator == << "T", "r", "a", "t", "o", "r" >>

\* an offer of a store, with a price and a short description, and what else is
\* given of it and of its product
Offer(more, product) ==
    PyDict(more @@ [ id |-> PyInt(7), store |-> PyDict([name |-> PyStr(S_store)]),
                     price |-> PyFloat(150000),
                     product |-> PyDict(product @@ [shortDesc |-> PyStr(S_Trator)]) ])

\* the offers that differ in where the lot is
LocatedOffers ==
    { Offer(Entry("seller", PyDict(Entry("city", seller_city))),
            Entry("location", PyDict(Entry("city", city) @@ Entry("state", state)))) :
        city \in LocationCities, seller_city \in SellerCities, state \in LocationStates }

\* what the feed holds under price
OfferPrices ==
    { None, PyInt(0), PyFloat(0), PyFloat(50), PyFloat(99), PyInt(1), PyFloat(100),
      PyInt(0 - 5), PyBool(TRUE), PyBool(FALSE), PyStr(<< "1", "0" >>), PyList(<< PyInt(1) >>) }

\* what the feed holds under store
OfferStores ==
    { Absent, None, PyStr(<< "x" >>), EmptyDict, PyDict([name |-> PyStr(S_store_demo)]),
      PyDict([name |-> PyStr(<< "C", "o", "n", "t", "e", "s", "t" >>)]), PyDict([name |-> PyInt(5)]),
      PyDict([name |-> PyStr(<<>>)]) }

\* what the feed holds under id
OfferIds == { Absent, None, PyInt(0), PyStr(<<>>), PyStr(<< "a", "b", "c" >>), PyInt(12), PyBool(TRUE) }

\* what the feed holds under product.template
OfferTemplates ==
    { None, EmptyDict, PyDict([groups |-> None]), PyDict([groups |-> PyStr(<< "a", "b" >>)]),
      PyDict([groups |-> PyList(<< PyInt(1) >>)]),
      PyDict([groups |-> PyList(<< PyDict([properties |-> PyList(<<
          PyDict([id |-> PyStr(<< "A", "n", "o", "F", "a", "b", "r", "i", "c", "a", "c", "a", "o" >>), value |-> PyStr(<< "2", "0", "2", "0" >>)]) >>)]) >>)]),
      PyDict([groups |-> PyList(<< PyDict([properties |-> PyList(<<
          PyDict([id |-> PyInt(5)]) >>)]) >>)]),
      PyDict([groups |-> PyList(<< PyDict([properties |-> PyInt(3)]) >>)]) }

\* what the feed holds under product.galleryJson
OfferGalleries ==
    { PyList(<<>>), PyList(<< PyDict([link |-> PyStr(<< "h", "t", "t", "p", ":", "/", "/", "x", "/", "1", ".", "j", "p", "g" >>)]) >>),
      PyList(<< EmptyDict >>), PyList(<< PyStr(<< "x" >>) >>), PyInt(5), PyStr(<< "a", "b" >>), EmptyDict,
      PyDict([a |-> PyInt(1)]) }

\* the offers that differ in one part
VariedOffers ==
    { Offer(Entry("price", v), <<>>) : v \in OfferPrices }
    \cup { PyDict(Entry("store", v) @@ [ id |-> PyInt(7), price |-> PyFloat(150000) ]) :
               v \in OfferStores }
    \cup { PyDict(Entry("id", v) @@ [ store |-> PyDict([name |-> PyStr(S_store)]) ]) :
               v \in OfferIds }
    \cup { Offer(<<>>, Entry("template", v)) : v \in OfferTemplates }
    \cup { Offer(<<>>, Entry("galleryJson", v)) : v \in OfferGalleries }
    \cup { Offer(Entry(k, v), <<>>) : k \in OfferDicts \ { "store", "product" },
                                      v \in { None, EmptyDict, PyInt(5) } }
    \cup { Offer(<<>>, Entry(k, v)) : k \in ProductDicts \ { "template" },
                                      v \in { None, EmptyDict } }
    \cup { Offer(<<>>, Entry("location", PyDict([locationGeo |-> v]))) :
               v \in { None, EmptyDict } }
    \cup { Offer(Entry("hasBids", v), <<>>) : v \in { PyBool(TRUE), PyStr(<< "y", "e", "s" >>), PyInt(0) } }
    \cup { Offer(Entry("totalBids", PyInt(4)), Entry("detailedDescription", PyStr(<< "U", "s", "a", "d", "o" >>))) }
    \* no short description: the description of the offer, if it is a dict
    \cup { PyDict(Entry("offerDescription", v)
                  @@ [ id |-> PyInt(7), store |-> PyDict([name |-> PyStr(S_store)]),
                       product |-> PyDict([shortDesc |-> s]) ]) :
               v \in { Absent, EmptyDict, PyStr(<< "x" >>),
                       PyDict([offerDescription |-> PyStr(<< "L", "o", "t", "e", " ", "5" >>)]) },
               s \in { None, PyStr(<<>>), PyStr(S_Trator) } }
    \cup { PyDict([ id |-> PyInt(7), store |-> PyDict([name |-> PyStr(S_store)]),
                    product |-> v ]) : v \in { None, PyStr(<< "x" >>), EmptyDict } }
    \* what is no dict at all
    \cup { None, PyStr(<< "x" >>), PyInt(5), PyList(<<>>), EmptyDict }

OfferShapes == LocatedOffers \cup VariedOffers

\* _parse_offer(offer, category, display_name) with any offer: the argument and
\* what the call returned
parse_offer ==
    /\ po_offer = <<>>
    /\ \E offer \in OfferShapes :
         \E r \in { ParseOfferBody(offer, 1) } :
           /\ po_offer' = << offer >>
           /\ po_item' = << OfferReturn(r) >>
    /\ UNCHANGED << scrapeVars, mainVars, upsertVars, heartbeatVars, normVars >>

OfferNext == parse_offer

SpecOffer == NormInit /\ [][OfferNext]_vars

-----------------------------------------------------------------------------
(* supabase_client.py: upsert called with one item *)

\* an item as upsert expects it: an external_id, and the offer under raw_data
RawOf(offer) ==
    PyDict([ external_id |-> PyStr(S_superbid_ \o << "7" >>), raw_data |-> offer ])

\* what the feed holds under a boolean flag such as hasBids
RawFlags ==
    { None, PyBool(TRUE), PyBool(FALSE), PyInt(1), PyInt(0), PyInt(2), PyInt(0 - 1),
      PyFloat(100), PyFloat(50), PyFloat(0), PyStr(<< "t", "r", "u", "e" >>), PyStr(<< "T", "R", "U", "E" >>), PyStr(<< "T", "r", "u", "e" >>), PyStr(<< "1" >>), PyStr(<< "y", "e", "s" >>),
      PyStr(<< "S", "i", "m" >>), PyStr(<< "s", "i", "m" >>), PyStr(<< "n", "o" >>), PyStr(<< "f", "a", "l", "s", "e" >>), PyStr(<< "0" >>), PyStr(<< "2" >>), PyStr(<< " ", "t", "r", "u", "e" >>), PyStr(<< "o", "n" >>), PyStr(<<>>),
      PyList(<<>>), PyList(<< PyBool(TRUE) >>), EmptyDict }

\* what an item holds under external_id
RawIdentities ==
    { Absent, None, PyStr(<<>>), PyStr(<< "s", "u", "p", "e", "r", "b", "i", "d", "_", "7" >>), PyStr(<< "x" >>), PyInt(0), PyInt(7) }

\* the items handed to upsert one at a time: the offers of the feed under
\* raw_data, the items _parse_offer makes of them, offers with any flag, items
\* with any external_id, and what is no dict
PrepareItems ==
    { RawOf(o) : o \in OfferShapes }
    \cup { OfferReturn(ParseOfferBody(o, 1)) : o \in OfferShapes }
    \cup { RawOf(Offer(Entry("hasBids", v), <<>>)) : v \in RawFlags }
    \cup { PyDict(Entry("external_id", e) @@ [ raw_data |-> PyDict([ id |-> PyInt(7) ]) ]) :
               e \in RawIdentities }
    \cup { RawItem(1), BareItem(2), AnonymousItem(1), BrokenItem(1), EmptyDict,
           PyStr(<< "x" >>), PyInt(5) }

\* upsert([item])
upsert_one ==
    /\ up_pc = "idle"
    /\ \E item \in PrepareItems : UpsertBegin(<< [item |-> item, count |-> 1] >>)
    /\ UNCHANGED << up_raised, posted, heartbeatVars >>
    /\ UNCHANGED << scrapeVars, mainVars, normVars, parseVars >>

PrepareNext ==
    \/ upsert_one
    \/ PostBatchInserted
    \/ PostBatchRefused
    \/ PostBatchRaises

SpecPrepare == UpsertInit /\ [][PrepareNext]_vars

-----------------------------------------------------------------------------
(* Properties of the normalizer, under SpecNorm *)

\* C1: normalize returns a record for every input mapping and never raises.
C1_NormalizeNeverRaises == n_pc # "raised"

\* C2: the title of every record normalize returns is a str that is neither
\* empty nor whitespace only.
C2_TitleNeverBlank ==
    \A k \in DOMAIN n_result :
        IsStr(n_result[k].title) /\ Strip(n_result[k].title.v) # <<>>

\* C3: normalize_items emits no record whose external_id or source is missing,
\* None or empty.
C3_NoPartialRecord ==
    n_pc = "done" =>
        \A k \in DOMAIN n_result :
            Truthy(n_result[k].external_id) /\ Truthy(n_result[k].source)

-----------------------------------------------------------------------------
(* Properties of scrape and main, under Spec and FairSpec *)

\* C4: every call of _scrape_section terminates, whatever the feed answers: the
\* page loop does not go on requesting pages for ever.
C4_ScrapeSectionTerminates ==
    (pc \in { "fetch", "offers" }) ~> (pc = "section_end")

\* C5: a failed page fetch below the failure cap is followed by a request of the
\* same page number.
C5_FailedPageRetried ==
    [][ (pc = "fetch" /\ pc' = "fetch"
         /\ consecutive_errors' = consecutive_errors + 1)
        => page_num' = page_num ]_vars

\* the external_ids of a list of items
ExternalIds(list) == { list[k].v.external_id : k \in DOMAIN list }

\* no two places of the list hold the same external_id
NoDuplicateIds(list) ==
    \A j, k \in DOMAIN list : list[j].v.external_id = list[k].v.external_id => j = k

\* C6: the items collected in one scrape() run, over all pages and sections,
\* never hold two items with the same external_id, and global_ids is the set of
\* the external_ids of the items collected so far.
C6_NoDuplicateExternalId ==
    /\ NoDuplicateIds(all_items \o items)
    /\ global_ids = ExternalIds(all_items \o items)

\* scrape() returned two items after skipping an offer it had already collected
C6_Witness ==
    /\ pc = "scraped"
    /\ Len(all_items) >= 2
    /\ stats.duplicates >= 1

UploadEvents == { "connect", "test", "upsert" }

\* C10: in main the dump of the collected items is written before anything of
\* the upload is attempted, upsert is given the items that were dumped, and with
\* no item collected neither the dump nor an upload happens.
C10_DumpBeforeUpload ==
    /\ \A k \in DOMAIN events :
         events[k] \in UploadEvents => \E j \in 1..(k - 1) : events[j] = "dump"
    /\ up_pc # "idle" => (dump # <<>> /\ up_input = AsRuns(dump))
    /\ posted # <<>> => dump # <<>>
    /\ (pc \in { "scraped", "done", "crashed" } /\ all_items = <<>>)
         => (dump = <<>> /\ events = <<>> /\ up_pc = "idle")

\* main returned after the dump, the connection, the test and the call of upsert
C10_Witness ==
    /\ pc = "done"
    /\ dump = all_items
    /\ events = << "dump", "connect", "test", "upsert", "final_stats" >>

\* C24: in _scrape_section every failed request, a status other than 200 or an
\* exception, adds one to consecutive_errors, every page with offers sets it to
\* 0, it never exceeds max_errors, no request is made once it is max_errors, and
\* the section is given up, without an empty page, exactly when it reaches
\* max_errors.
C24_AbandonAtThree ==
    [][ /\ consecutive_errors' <= max_errors
        /\ pc = "fetch" => consecutive_errors < max_errors
        /\ (pc = "fetch" /\ last_fetch' \in { "http_error", "exception" })
              => consecutive_errors' = consecutive_errors + 1
        /\ (pc = "fetch" /\ last_fetch' = "page") => consecutive_errors' = 0
        /\ (pc = "fetch" /\ last_fetch' # "empty")
              => (pc' = "section_end" <=> consecutive_errors' = max_errors) ]_vars

\* C28: in main, once the client is constructed the connection test is made,
\* upsert is called only after it and with exactly the collected items, no step
\* of the upload stage ends main, with an exception or otherwise, and what
\* follows the upload stage is the printing of the final statistics.
C28_UploadNeverFatal ==
    [][ /\ pc = "test" => /\ events' = Append(events, "test")
                          /\ pc' \in { "upsert", "final_stats" }
        /\ pc = "upsert" => /\ events[Len(events)] = "test"
                            /\ events' = Append(events, "upsert")
                            /\ up_input' = AsRuns(all_items)
        /\ pc \in { "connect", "test", "upsert" }
              => pc' \in { "test", "upsert", "final_stats" }
        /\ pc = "final_stats" => /\ events' = Append(events, "final_stats")
                                 /\ pc' = "done" ]_vars

\* main returned after the test succeeded and upsert was given the two items
\* scrape had collected
C28_Witness ==
    /\ pc = "done"
    /\ Len(all_items) = 2
    /\ up_pc = "done"
    /\ up_input = AsRuns(all_items)
    /\ events[Len(events)] = "final_stats"
    /\ \E k \in DOMAIN events : events[k] = "test" /\ events[k + 1] = "upsert"

\* the sum of the values of by_category under the keys in S
RECURSIVE SumOver(_, _)
SumOver(by_category, S) ==
    IF S = {} THEN 0
    ELSE LET c == CHOOSE x \in S : TRUE
         IN  by_category[c] + SumOver(by_category, S \ { c })

\* the returned items that have a bid
WithBids(list) == { k \in DOMAIN list : Truthy(Get(list[k].v, "has_bid")) }

\* C29: once scrape() returned, stats['total_scraped'] is the number of returned
\* items and the sum of the by_category values, stats['duplicates'] is the
\* number of parsed offers skipped as already collected, and
\* stats['with_bids'] is the number of returned items with a bid, so at most
\* total_scraped.
C29_StatsConsistent ==
    pc \notin { "fetch", "offers", "section_end" } =>
        /\ stats.total_scraped = Len(all_items)
        /\ stats.total_scraped = SumOver(stats.by_category, DOMAIN stats.by_category)
        /\ stats.duplicates = skipped
        /\ stats.with_bids = Cardinality(WithBids(all_items))
        /\ stats.with_bids <= stats.total_scraped

\* scrape() returned one item of each section, one of them with a bid, after it
\* skipped an offer it had collected before
C29_Witness ==
    /\ pc = "scraped"
    /\ stats.total_scraped = 2
    /\ stats.by_category[1] = 1
    /\ stats.by_category[2] = 1
    /\ stats.duplicates = 1
    /\ stats.with_bids = 1

-----------------------------------------------------------------------------
(* Properties of upsert and of the heartbeat, under SpecUpsert *)

\* the records of the posted batches the sink answered with one of statuses
RECURSIVE SumPosted(_, _)
SumPosted(log, statuses) ==
    IF log = <<>> THEN 0
    ELSE (IF Head(log).status \in statuses THEN Head(log).size ELSE 0)
         + SumPosted(Tail(log), statuses)

\* the statuses that count as errors; 0 stands for a POST that raised
ErrorStatuses == (SinkStatuses \cup { 0 }) \ { 200, 201, 409 }

StatsSum(st) == st.inserted + st.updated + st.errors

\* C7: every posted batch is counted whole in exactly one bucket, by its
\* response: 200/201 in inserted, 409 in updated, anything else or a raised POST
\* in errors; so when upsert returns after preparing at least one record,
\* inserted + updated + errors is the number of prepared records.
C7_BatchCountedInOneBucket ==
    /\ up_stats.inserted = SumPosted(posted, { 200, 201 })
    /\ up_stats.updated = SumPosted(posted, { 409 })
    /\ up_stats.errors = SumPosted(posted, ErrorStatuses)
    /\ (up_pc = "done" /\ up_prepared # <<>>)
         => /\ up_result = up_stats
            /\ StatsSum(up_result) = TotalCount(up_prepared)

\* upsert returned after two batches, one answered 409 and one whose POST raised
C7_Witness ==
    /\ up_pc = "done"
    /\ Len(posted) = 2
    /\ posted[1].status = 409
    /\ posted[2].status = 0
    /\ posted[1].size = batch_size

\* the input items _prepare_item answers None for
RECURSIVE DroppedCount(_)
DroppedCount(runs) ==
    IF runs = <<>> THEN 0
    ELSE (IF _prepare_item(Head(runs).item).kind = "none" THEN Head(runs).count ELSE 0)
         + DroppedCount(Tail(runs))

\* C8: the stats upsert returns account for every input item: inserted +
\* updated + errors plus the number of dropped records is the number of items
\* passed in.
C8_EveryItemCounted ==
    up_pc = "done" => StatsSum(up_result) + DroppedCount(up_input) = TotalCount(up_input)

\* C9: a heartbeat failure is never fatal: no heartbeat method raises, and a
\* pass of the batch loop counts its batch by the sink's answer alone and goes
\* on to the next batch, whatever the heartbeat POST did.
C9_HeartbeatNeverFatal ==
    [][ /\ ~up_raised'
        /\ (up_pc = "post" /\ Len(posted') = Len(posted) + 1) =>
             LET b == posted'[Len(posted')]
             IN  /\ b.size = BatchLen(up_i, TotalCount(up_prepared))
                 /\ up_stats' = (IF b.status \in { 200, 201 }
                                 THEN [up_stats EXCEPT !.inserted = @ + b.size]
                                 ELSE IF b.status = 409
                                 THEN [up_stats EXCEPT !.updated = @ + b.size]
                                 ELSE [up_stats EXCEPT !.errors = @ + b.size])
                 /\ up_i' = up_i + batch_size
                 /\ up_pc' = (IF up_i' < TotalCount(up_prepared)
                              THEN "post" ELSE "done") ]_vars

\* upsert returned two inserted batches although heartbeat POSTs failed
C9_Witness ==
    /\ up_pc = "done"
    /\ heartbeat_enabled
    /\ Len(posted) = 2
    /\ posted[1].status = 201
    /\ posted[2].status = 200
    /\ hb_sent.failed >= 2
    /\ up_result.inserted = TotalCount(up_prepared)

\* the keys of the dict _prepare_item returns
PreparedColumns ==
    { "external_id", "offer_id", "title", "description", "city", "state",
      "location_full", "has_bids", "total_bids", "link", "source", "metadata",
      "is_active", "has_bid" }

\* C11: all the records upsert prepared carry exactly the same keys, the fixed
\* key set of the dict _prepare_item returns, whatever the items hold
C11_PreparedSameKeys ==
    \A i \in DOMAIN up_prepared :
        /\ DOMAIN up_prepared[i].rec = PreparedColumns
        /\ \A j \in DOMAIN up_prepared :
               DOMAIN up_prepared[i].rec = DOMAIN up_prepared[j].rec

\* a record of a full offer and a record of an offer with its id alone were
\* prepared by one call
C11_Witness ==
    /\ Len(up_prepared) = 2
    /\ up_prepared[1].rec.state # None
    /\ up_prepared[1].rec.city # None
    /\ "gallery" \in DOMAIN up_prepared[1].rec.metadata.v
    /\ up_prepared[2].rec.state = None
    /\ up_prepared[2].rec.city = None
    /\ up_prepared[2].rec.description = None
    /\ "gallery" \notin DOMAIN up_prepared[2].rec.metadata.v

\* C12: the state of every record normalize returned is None or one of the 27
\* codes of VALID_STATES; the code given is trimmed and upper-cased first ('sp'
\* gives 'SP'), and None, '' and 'XX' give None
C12_StateValidOrNull ==
    \A i \in DOMAIN n_result :
        LET given == Get(n_items[i].v, "state")
            state == n_result[i].state
        IN  /\ IsNone(state) \/ (IsStr(state) /\ state.v \in VALID_STATES)
            /\ given = PyStr(<< "s", "p" >>) => state = PyStr(<< "S", "P" >>)
            /\ given \in { None, PyStr(<<>>), PyStr(<< "X", "X" >>) } => IsNone(state)

\* a listing with the state ' Sp ' was normalized, to 'SP'
C12_Witness ==
    /\ n_pc = "done"
    /\ Len(n_result) = 1
    /\ Get(n_items[1].v, "state") = PyStr(<< " ", "S", "p", " " >>)
    /\ n_result[1].state = PyStr(<< "S", "P" >>)

\* whether x is None or a float that is a number and at least zero
NullOrNonNegative(x) == IsNone(x) \/ (x.t = "float" /\ x.v >= 0)

\* C13: value and first_round_value of every record normalize returned are None
\* or a number greater than or equal to zero
C13_ValuesNonNegative ==
    \A i \in DOMAIN n_result :
        /\ NullOrNonNegative(n_result[i].value)
        /\ NullOrNonNegative(n_result[i].first_round_value)

\* re.search(r, s): r matches somewhere in s
Search(r, s) == \E i \in 1..(Len(s) + 1) : Ends(r, s, i) # <<>>

\* C14: a description that holds the phrase of a discounted round keeps it in the
\* record, while the title of the record holds no such phrase
C14_DescriptionKeepsRound ==
    \A i \in DOMAIN n_result :
        LET given == Get(n_items[i].v, "description")
        IN  /\ ~Search(RE_DiscountPraca, n_result[i].title.v)
            /\ (IsStr(given) /\ Search(RE_DiscountPraca, given.v))
                   => /\ IsStr(n_result[i].description)
                      /\ Search(RE_DiscountPraca, n_result[i].description.v)

\* C15: the description of every record normalize returned is None or a str of
\* at least 5 characters
C15_DescriptionNullOrFive ==
    \A i \in DOMAIN n_result :
        \/ IsNone(n_result[i].description)
        \/ (IsStr(n_result[i].description) /\ Len(n_result[i].description.v) >= 5)

\* C16: the description_preview of every record normalize returned is at most
\* 150 characters long
C16_PreviewWithin150 ==
    \A i \in DOMAIN n_result : Len(n_result[i].description_preview.v) <= 150

\* whether x is None or a str of at most cap characters
Within(x, cap) == IsNone(x) \/ (IsStr(x) /\ Len(x.v) <= cap)

\* C17: in every record normalize returned the title is at most 200 characters
\* long, city and address at most 255, auction_type, auction_name, store_name and
\* lot_number at most 200, and the description at most 5000
C17_LengthCaps ==
    \A i \in DOMAIN n_result :
        /\ Within(n_result[i].title, 200)
        /\ Within(n_result[i].city, 255)
        /\ Within(n_result[i].address, 255)
        /\ Within(n_result[i].auction_type, 200)
        /\ Within(n_result[i].auction_name, 200)
        /\ Within(n_result[i].store_name, 200)
        /\ Within(n_result[i].lot_number, 200)
        /\ Within(n_result[i].description, 5000)

\* C18: normalize is idempotent: a record normalize returned, handed to normalize
\* again, comes back unchanged
C18_NormalizeIdempotent ==
    \A i \in DOMAIN n_result :
        normalize(PyDict(n_result[i])) = [kind |-> "record", rec |-> n_result[i]]

\* the title _clean_title returns for the listing (a listing whose title is
\* taken from its external_id excepted)
CleanedTitles ==
    { _clean_title(GetOr(n_items[i].v, "title", PyStr(<<>>))) :
        i \in { j \in DOMAIN n_result :
                  ~(/\ Lower(GetOr(n_items[j].v, "source", PyStr(<<>>)).v) = S_megaleiloes
                    /\ Truthy(GetOr(n_items[j].v, "external_id", PyStr(<<>>)))) } }

\* C19: the title _clean_title returns holds no phrase of a round or of a
\* discounted round, no 'R$' followed by a number, and no three bare numbers in
\* a row
C19_TitleFreeOfNoise ==
    \A title \in CleanedTitles :
        /\ ~Search(RE_DiscountPraca, title)
        /\ ~Search(RE_Praca, title)
        /\ ~Search(RE_Money, title)
        /\ ~Search(RE_Counters, title)

\* the keys of the dict normalize returns
NormalizedKeys ==
    { "source", "external_id", "title", "normalized_title", "description",
      "description_preview", "value", "value_text", "auction_round",
      "discount_percentage", "first_round_value", "first_round_date", "city",
      "state", "address", "auction_date", "days_remaining", "auction_type",
      "auction_name", "store_name", "lot_number", "total_visits", "total_bids",
      "total_bidders", "link", "vehicle_type", "property_type", "animal_type",
      "metadata" }

\* C20: every record normalize returned has exactly the keys of NormalizedKeys;
\* what the listing does not hold is there as None or as its default
C20_RecordSameKeys ==
    \A i \in DOMAIN n_result :
        /\ DOMAIN n_result[i] = NormalizedKeys
        /\ DOMAIN n_items[i].v = {} =>
              /\ \A k \in NormalizedKeys \ { "title", "normalized_title",
                                             "description_preview", "auction_type",
                                             "total_visits", "total_bids",
                                             "total_bidders", "metadata" } :
                     IsNone(n_result[i][k])
              /\ n_result[i].total_bids = PyInt(0)
              /\ n_result[i].metadata = EmptyDict

\* the listing without a key was normalized
C20_Witness ==
    /\ n_pc = "done"
    /\ Len(n_result) = 1
    /\ n_items[1] = EmptyDict
    /\ n_result[1].title = PyStr(S_SemTitulo)
    /\ IsNone(n_result[1].city)

-----------------------------------------------------------------------------
(* Properties of the counters of normalize, under SpecItem *)

\* C26: no counter of a record normalize returned is negative: days_remaining
\* is None or at least 0, and total_visits, total_bids and total_bidders are
\* integers of at least 0.
C26_CountersNonNegative ==
    \A i \in DOMAIN n_result :
        /\ IsNone(n_result[i].days_remaining) \/ n_result[i].days_remaining.v >= 0
        /\ n_result[i].total_visits.v >= 0
        /\ n_result[i].total_bids.v >= 0
        /\ n_result[i].total_bidders.v >= 0

-----------------------------------------------------------------------------
(* Properties of the batch loop of upsert, under SpecUpsert *)

\* C23: upsert posts the prepared records in consecutive batches of at most 500
\* records: every POST carries between 1 and 500 records, each batch starts
\* where the one before it ended, whatever the sink answered, and when upsert
\* returns the batches add up to the prepared list.
C23_BatchesPartition ==
    /\ \A k \in 1..Len(posted) : posted[k].size \in 1..batch_size
    /\ \A k \in 1..(Len(posted) - 1) : posted[k].size = batch_size
    /\ up_pc = "post" => SumPosted(posted, SinkStatuses \cup { 0 }) = up_i
    /\ up_pc = "post" => up_i < TotalCount(up_prepared)
    /\ up_pc = "done" =>
           SumPosted(posted, SinkStatuses \cup { 0 }) = TotalCount(up_prepared)

\* two batches, 500 records and 1, the second posted after the first failed
C23_Witness ==
    /\ up_pc = "done"
    /\ TotalCount(up_prepared) = batch_size + 1
    /\ Len(posted) = 2
    /\ posted[1] = [size |-> batch_size, status |-> 500]
    /\ posted[2] = [size |-> 1, status |-> 201]

-----------------------------------------------------------------------------
(* Properties of _prepare_item, under SpecPrepare *)

\* the input items that carry a non-empty external_id
RECURSIVE IdentifiedCount(_)
IdentifiedCount(runs) ==
    IF runs = <<>> THEN 0
    ELSE (IF Head(runs).item.t = "dict" /\ Truthy(Get(Head(runs).item.v, "external_id"))
          THEN Head(runs).count ELSE 0)
         + IdentifiedCount(Tail(runs))

\* C21: _prepare_item rejects an item only for its missing external_id: every
\* item that carries a non-empty external_id, those of _parse_offer included, is
\* prepared and is posted in a batch once upsert returned, and no exception
\* leaves upsert.
C21_OnlyIdentityRejects ==
    /\ ~up_raised
    /\ up_pc # "idle" => TotalCount(up_prepared) = IdentifiedCount(up_input)
    /\ up_pc = "done" => SumPosted(posted, SinkStatuses \cup { 0 }) = IdentifiedCount(up_input)

\* C22: the state of every record that reaches the sink is null or one of the
\* 27 state codes.
C22_SinkStatesValid ==
    \A k \in 1..Len(up_prepared) :
        posted # <<>> =>
            \/ IsNone(up_prepared[k].rec.state)
            \/ /\ IsStr(up_prepared[k].rec.state)
               /\ up_prepared[k].rec.state.v \in VALID_STATES

\* C25: the has_bids column of a record is safe_bool of the offer's hasBids: the
\* boolean itself, for a number whether it is greater than 0, for a string
\* whether its lower case is 'true', '1', 'yes' or 'sim', and false for
\* anything else, None included.
C25_FlagCoercion ==
    up_prepared # <<>> =>
        LET val  == RawGet(up_input[1].item.v.raw_data, << "hasBids" >>, None)
            flag == up_prepared[1].rec.has_bids.v
        IN  CASE val.t = "bool" -> flag = val.v
              [] val.t \in { "int", "float" } -> flag = (val.v > 0)
              [] val.t = "str" ->
                   flag = (Lower(val.v) \in { << "t", "r", "u", "e" >>, << "1" >>,
                                              << "y", "e", "s" >>, << "s", "i", "m" >> })
              [] OTHER -> flag = FALSE

-----------------------------------------------------------------------------
(* Properties of _parse_offer, under SpecOffer *)

\* the keys of the item _parse_offer returns, as far as the model carries them
OfferColumns ==
    { "external_id", "offer_id", "category", "title", "description", "city", "state",
      "location_full", "store_name", "price", "has_bids", "total_bids", "image_url",
      "seller_city", "link", "source", "is_active", "has_bid" }

\* C30: _parse_offer returns, for any offer, None or an item with all its keys;
\* the store name of a returned item contains neither 'demo' nor 'test', and
\* its price, when a number, is not below 1.
C30_ParseOfferFilters ==
    po_item # <<>> =>
        \/ IsNone(po_item[1])
        \/ /\ po_item[1].t = "dict"
           /\ DOMAIN po_item[1].v = OfferColumns
           /\ IsStr(po_item[1].v.store_name) => ~StoreIsDemo(po_item[1].v.store_name)
           /\ po_item[1].v.price.t \in { "int", "float" }
                 => ~LessThanOne(po_item[1].v.price)

=============================================================================
